---- MODULE Spec2Model ----
(***************************************************************************)
(* Servo control backend: the servo registry, the PCA9685 driver wrapper,  *)
(* the safety system with its watchdog thread and the preset engine, as    *)
(* wired together by backend/app.py.                                       *)
(*                                                                         *)
(* Time is counted in watchdog samples: one unit is the 100 ms the         *)
(* watchdog worker sleeps between two checks.  The model keeps, for each   *)
(* timestamp the code stores, its age time.time() - timestamp, which is    *)
(* all the code ever reads of it.  Angles are degrees.                     *)
(***************************************************************************)
EXTENDS Integers, FiniteSets, Sequences, TLC

(* ------------------------------ bounds -------------------------------- *)

\* Largest watchdog timeout, in 100 ms samples, an operator passes to watchdog_start.
MaxTimeout == 2
\* duration_ms of the timeline, in transport frames (1/60 s)
TlDuration == 2
\* transport commands (play, stop, loop_set) an operator issues in one run
MaxCommands == 3
\* keyframes an operator adds to the track
MaxKeyframes == 2
\* Keyframes of a track that is simplified.
MaxTrackLen == 4
\* Keyframes of a track that is recorded into while it is authored.
MaxRecorded == 3

(* ------------------------- program constants -------------------------- *)

DefaultAngle == 90
DefaultMinDeg == 0
DefaultMaxDeg == 180
DriverMaxAngle == 180
MaxChannel == 15
RetractCap == 45
PreflightMargin == 5
NodMinAngle == 75
NodMaxAngle == 105
\* Rates in tenths: the "nod" definition's rate=0.5, preset_play's default rate=1.0
NodRate == 5
DefaultRate == 10
DefaultMinPulse == 750
DefaultMaxPulse == 2250

(* --------------------------- input domains ---------------------------- *)

\* Servo ids an operator registers.
ServoIds == {"a", "b"}
\* Identifiers an operator sends: servo ids and a name nothing resolves.
Identifiers == ServoIds \cup {"zz"}
\* Channels of the expander the model tracks.
Channels == {0, 1}
\* The channel field of a ServoIds slot that holds no servo.
NoChannel == -1
\* Angles an operator commands: one inside every limit pair, one above 180.
CmdAngles == {30, 200}
\* (id, channel, orientation) an operator passes to register_servo; one channel
\* is out of range.
RegisterInputs == {<<"a", 0, "inverted">>, <<"a", MaxChannel + 1, "normal">>,
                   <<"b", 0, "normal">>, <<"b", 1, "normal">>}
\* (identifier, min_deg, max_deg) an operator passes to set_soft_limits; "0" is
\* channel 0 in decimal.
LimitInputs == {<<"a", 60, 120>>, <<"a", 120, 60>>, <<"0", 0, 200>>, <<"zz", 60, 120>>}
\* Timeouts, in 100 ms samples, an operator passes to watchdog_start.
Timeouts == 1..MaxTimeout
\* Ages (of the last pet, of the last timeout) saturate here: beyond every timeout.
MaxAge == MaxTimeout + 2
\* EmergencyMode
EmergencyModes == {"detach", "hold", "safe_pose"}
\* The safe poses _create_default_safe_poses builds.
PoseNames == {"park", "retract"}
\* Pose names an operator asks go_safe_pose for: "none" is the absent argument,
\* "nopose" a name no pose has.
PoseInputs == {"none", "nopose"}
\* Aliases an operator gives with alias_servo: a servo id, a channel in decimal,
\* a free name.
AliasNames == {"b", "1", "x"}
\* (old_id, new_id) an operator passes to rename_servo.
RenameInputs == {<<"a", "b">>, <<"b", "a">>, <<"a", "a">>}
\* Identifiers an operator asks the registry to resolve.
ResolveInputs == {"a", "b", "1", "x", "zz"}
\* (identifier, min_us, max_us) an operator passes to calibrate_servo.
CalibInputs == {<<"a", 1000, 2000>>, <<"a", 2000, 1000>>, <<"zz", 1000, 2000>>}
\* (identifier, min_deg, max_deg) of set_soft_limits before a preflight: wide,
\* of width 10, narrower than the preflight margin, and away from center_deg.
PreflightLimits == {<<"a", 60, 120>>, <<"a", 60, 70>>, <<"a", 60, 63>>, <<"a", 100, 120>>}
\* Angles handed to clamp_angle: below, inside and above the limits.
ClampAngles == {-10, 61, 90, 200}
\* The threads that call the driver: a request handler, PresetEngine.update_thread.
Threads == {"operator", "preset"}
\* Keyframe times (frames) and values of an authored track, tolerance_deg of
\* simplify_track.
AuthorTimes == 0..3
AuthorValues == {0, 2}
Tolerances == {0, 1}
\* (time_ms, value) of the keyframe_add calls made while a recording runs: by a
\* handler that runs to its end, and by one that is preempted inside bisect.insort.
AuthorKeys == {<<0, 0>>, <<1, 2>>}
PreemptedKeys == {<<1, 0>>}
\* (start_ms, end_ms) of loop_set, in frames: the defaults (end_ms 0 is falsy and
\* becomes duration_ms), an inner range, an inverted one, one past the end.
LoopRanges == {<<0, 0>>, <<1, 2>>, <<2, 1>>, <<0, TlDuration + 1>>}
\* time_ms of scrub, in frames: before the start, inside, past the end.
ScrubTimes == {-1, 1, TlDuration + 1}
\* Keyframe times, values and eases of the tracks that are interpolated, and the
\* times they are sampled at; the values make every eased value an integer.
EaseTypes == {"linear", "ease_in", "ease_in_out"}
EasedTimes == {0, 2, 4}
EasedValues == {0, 160}
SampleTimes == -1..5
\* The values two tracks with the target "a" hold, one keyframe each.
GateValues == <<30, 150>>
\* rate of set_speed: rejected, normal, double.
Rates == {0, 1, 2}
\* Ages of start_time in frames; MaxTlAge stands for every age past the duration.
MaxTlAge == TlDuration + 1
\* (time_ms, value) an operator passes to keyframe_add, times in frames.
KeyframeInputs == {<<0, 30>>, <<TlDuration, 150>>}
\* The preset definitions the model tracks.
PresetNames == {"nod"}
\* Target lists an operator passes to preset_play (the empty one: no targets given).
TargetInputs == {{}, {"a"}, {"a", "b"}}
\* Samples of the range the "nod" ping-pong generator sweeps.
GenAngles == {NodMinAngle, NodMaxAngle}
\* Per channel: does the I2C bus accept this call's writes (FALSE: it raises)?
HwOutcomes == [Channels -> BOOLEAN]
\* The same for a call that touches one channel only.
HwOne == {[c \in Channels |-> b] : b \in BOOLEAN}

(* ------------------------------- state -------------------------------- *)

VARIABLES
    servos,             \* ServoRegistry.servos: id -> ServoMetadata (channel = NoChannel: absent)
    drv,                \* ServoController: channel -> [init, active, angle]
    current_state,      \* SafetySystem.current_state
    safe_poses,         \* SafetySystem.safe_poses: name -> (id -> angle, NoAngle: not listed)
    watchdog_enabled,   \* SafetySystem.watchdog_enabled
    watchdog_timeout,   \* SafetySystem.watchdog_timeout, in samples
    idle,               \* time.time() - SafetySystem.last_activity
    wd_pc,              \* position of the watchdog thread
    wd_slept,           \* the sleeping watchdog thread has slept its 100 ms
    since_fire,         \* time since the last timeout handler invocation (-1: none yet)
    preset,             \* PresetEngine.running_instances: name -> instance
    preset_thread,      \* PresetEngine.update_thread is alive
    preset_definitions, \* PresetEngine.preset_definitions: name -> its PresetParams
    watchdog_lock,      \* SafetySystem.watchdog_lock: its holder, the threads blocked on it
    alias_map,          \* ServoRegistry.alias_map: alias -> id ("": no such alias)
    channel_map,        \* ServoRegistry.channel_map: channel -> id ("": not assigned)
    tl,                 \* TimelineEngine: transport state and the transport thread
    in_driver,          \* thread -> the ServoController call it is inside (NoCall: none)
    ev                  \* the operation that produced this state

vars == <<servos, drv, current_state, safe_poses, watchdog_enabled, watchdog_timeout,
          idle, wd_pc, wd_slept, since_fire, preset, preset_thread, preset_definitions, watchdog_lock,
          alias_map, channel_map, tl, in_driver, ev>>

NoAngle == -1

\* No ServoController call under way; a call keeps the servo and the clamped angle
NoCall == [s |-> "", safe |-> NoAngle]

\* No keyframe_add is inside bisect.insort.  One that is keeps the index it has
\* found, its keyframe, and whether track.keyframes was replaced meanwhile
NoInsert == [idx |-> -1, time |-> -1, value |-> NoAngle, lost |-> FALSE]

\* TimelineEngine.__init__.  One timeline name and one track name are tracked:
\* timeline/track tell whether they exist, kf is the track's keyframe list.
\* age is time.time() - start_time in frames (start_time = 0.0: long ago); pc is
\* the position of the transport thread ("none": never started), slept whether
\* its sleep has elapsed; cmds counts the transport commands issued; rec_age is
\* time.time() - recording_start_time, ins the insertion under way.  Times are
\* in frames; loop_start and loop_end are the Timeline's loop_start_ms and
\* loop_end_ms (defaults 0 and duration_ms); speed is playback_speed, pause_age is pause_time - start_time.  The
\* transport thread is followed at the initial speed 1.0.  The track of kf keeps
\* the flags track_add gives it (enabled, not solo, not muted); flagged is the
\* list of tracks of a timeline whose Track records have other flags; live
\* tells whether the track is the "a_live" track record_live_start created.
NewTimelineEngine ==
    [state |-> "stopped", current_time |-> 0, age |-> MaxTlAge,
     timeline |-> FALSE, loop |-> FALSE, track |-> FALSE, kf |-> <<>>,
     pc |-> "none", slept |-> FALSE, cmds |-> 0, rec_age |-> MaxTlAge, ins |-> NoInsert,
     speed |-> 1, pause_age |-> 0, loop_start |-> 0, loop_end |-> TlDuration,
     flagged |-> <<>>, live |-> FALSE]

(* --------------------------- servo registry --------------------------- *)

\* ServoMetadata with its dataclass defaults.
NewServo(ch, orient) ==
    [channel |-> ch, orientation |-> orient,
     min_deg |-> DefaultMinDeg, max_deg |-> DefaultMaxDeg,
     center_deg |-> DefaultAngle,
     current_angle |-> DefaultAngle, target_angle |-> DefaultAngle,
     enabled |-> FALSE,
     min_pulse_us |-> DefaultMinPulse, max_pulse_us |-> DefaultMaxPulse]

AbsentServo == NewServo(NoChannel, "normal")

Registered(sv) == {s \in ServoIds : sv[s].channel # NoChannel}

\* `channel in self.channel_map`
ChannelTaken(cm, ch) == ch \in DOMAIN cm /\ cm[ch] # ""

\* `alias in self.alias_map`
AliasTaken(am, alias) == alias \in DOMAIN am /\ am[alias] # ""

\* int(identifier) for the identifiers of the model (NoChannel: ValueError)
DecimalOf(identifier) ==
    IF identifier = "0" THEN 0 ELSE IF identifier = "1" THEN 1 ELSE NoChannel

resolve_servo_channel_first(sv, identifier) ==
    IF ChannelTaken(channel_map, DecimalOf(identifier))
    THEN channel_map[DecimalOf(identifier)]
    ELSE IF AliasTaken(alias_map, identifier) THEN alias_map[identifier]
    ELSE IF identifier \in Registered(sv) THEN identifier
    ELSE ""

\* resolve_servo: the id of the servo the identifier resolves to, "" for None
resolve_servo(sv, identifier) ==
    IF identifier \in Registered(sv) THEN identifier
    ELSE IF AliasTaken(alias_map, identifier) THEN alias_map[identifier]
    ELSE IF ChannelTaken(channel_map, DecimalOf(identifier))
         THEN channel_map[DecimalOf(identifier)]
         ELSE ""

Max2(x, y) == IF x >= y THEN x ELSE y
Min2(x, y) == IF x <= y THEN x ELSE y

clamp_angle_noclamp(m, angle) == angle

\* clamp_angle, for a resolved servo m
clamp_angle(m, angle) == Max2(m.min_deg, Min2(m.max_deg, angle))

is_angle_safe(m, angle) == m.min_deg <= angle /\ angle <= m.max_deg

\* apply_orientation, for a resolved servo m
apply_orientation(m, angle) ==
    IF m.orientation = "inverted" THEN DriverMaxAngle - angle
    ELSE IF m.orientation = "mirrored" THEN DriverMaxAngle - angle
    ELSE angle

(* ------------------------------ driver -------------------------------- *)

\* ServoConfig defaults; init: the channel is in ServoController.servos
NewChannel(isInit) ==
    [init |-> isInit, active |-> TRUE, angle |-> DefaultAngle,
     min_pulse |-> DefaultMinPulse, max_pulse |-> DefaultMaxPulse]

\* initialize_servo as set_servo_angle calls it, on one channel's record
DrvInitialized(c, hwok) ==
    IF ~c.init /\ hwok THEN [c EXCEPT !.init = TRUE, !.active = TRUE] ELSE c

\* set_servo_angle: does the write succeed?
set_servo_angle_ok(c, hwok) ==
    LET c1 == DrvInitialized(c, hwok) IN c1.init /\ c1.active /\ hwok

\* set_servo_angle: the channel's record afterwards
set_servo_angle(c, angle, hwok) ==
    LET c1 == DrvInitialized(c, hwok) IN
    IF c1.init /\ c1.active /\ hwok
    THEN [c1 EXCEPT !.angle = Max2(0, Min2(DriverMaxAngle, angle))]
    ELSE c1

\* disable_servo
disable_servo_ok(c, hwok) == c.init /\ hwok
disable_servo(c, hwok) == IF c.init /\ hwok THEN [c EXCEPT !.active = FALSE] ELSE c

\* enable_servo: mark active, re-drive the last angle
enable_servo(c, hwok) == set_servo_angle([c EXCEPT !.active = TRUE], c.angle, hwok)
enable_servo_ok(c, hwok) == set_servo_angle_ok([c EXCEPT !.active = TRUE], hwok)

(* ------------------- the clamp -> orient -> driver path ---------------- *)

\* The servos a request addresses: req maps a servo id to the angle asked (NoAngle: none).
Addressed(sv, req) == {s \in Registered(sv) : req[s] # NoAngle}

\* The angle handed to set_servo_angle for servo s
OrientedAngle(sv, s, angle) == apply_orientation(sv[s], clamp_angle(sv[s], angle))

\* The addressed servos whose driver write succeeds
Accepted(sv, d, req, hw) ==
    {s \in Addressed(sv, req) : set_servo_angle_ok(d[sv[s].channel], hw[sv[s].channel])}

\* The driver after set_servo_angle was called for every addressed servo in S
DriveAll(sv, d, req, S, hw) ==
    [c \in Channels |->
        IF \E s \in S : sv[s].channel = c
        THEN LET s == CHOOSE t \in S : sv[t].channel = c
             IN set_servo_angle(d[c], OrientedAngle(sv, s, req[s]), hw[c])
        ELSE d[c]]

\* The (channel, angle) pulses the driver put out
PulsesOf(sv, req, S) ==
    {<<sv[s].channel, Max2(0, Min2(DriverMaxAngle, OrientedAngle(sv, s, req[s])))>> : s \in S}

\* current_angle and target_angle of the servos in S set to the clamped angle
StoreAll(sv, req, S) ==
    [s \in ServoIds |->
        IF s \in S
        THEN [sv[s] EXCEPT !.current_angle = clamp_angle(sv[s], req[s]),
                           !.target_angle = clamp_angle(sv[s], req[s])]
        ELSE sv[s]]

NoRequest == [s \in ServoIds |-> NoAngle]

(* ---------------------------- safety system --------------------------- *)

\* add_safe_pose: the validated angles stored for a pose
add_safe_pose(sv, angles) ==
    [s \in ServoIds |->
        IF angles[s] = NoAngle THEN NoAngle
        ELSE IF s \in Registered(sv) /\ ~is_angle_safe(sv[s], angles[s])
             THEN clamp_angle(sv[s], angles[s])
             ELSE angles[s]]

\* _create_default_safe_poses
DefaultSafePoses(sv) ==
    [p \in PoseNames |->
        IF p = "park"
        THEN add_safe_pose(sv, [s \in ServoIds |->
                 IF s \in Registered(sv) THEN DefaultAngle ELSE NoAngle])
        ELSE add_safe_pose(sv, [s \in ServoIds |->
                 IF s \in Registered(sv)
                 THEN Min2((sv[s].min_deg + sv[s].max_deg) \div 2, RetractCap)
                 ELSE NoAngle])]

\* go_safe_pose: [sv, d, ok, writes] after moving to the named pose
go_safe_pose(sv, d, poses, pose_name, hw) ==
    LET name == IF pose_name = "none" THEN "park" ELSE pose_name IN
    IF name \notin DOMAIN poses
    THEN [sv |-> sv, d |-> d, ok |-> FALSE, writes |-> {}]
    ELSE LET req == poses[name]
             acc == Accepted(sv, d, req, hw)
         IN [sv |-> StoreAll(sv, req, acc),
             d |-> DriveAll(sv, d, req, Addressed(sv, req), hw),
             ok |-> acc # {},
             writes |-> PulsesOf(sv, req, acc)]

\* _detach_all_servos
DetachAll(sv, d, hw) ==
    LET done == {s \in Registered(sv) :
                    sv[s].enabled /\ disable_servo_ok(d[sv[s].channel], hw[sv[s].channel])}
    IN [sv |-> [s \in ServoIds |-> IF s \in done THEN [sv[s] EXCEPT !.enabled = FALSE]
                                   ELSE sv[s]],
        d |-> [c \in Channels |->
                  IF \E s \in done : sv[s].channel = c THEN disable_servo(d[c], hw[c])
                  ELSE d[c]],
        ok |-> done # {},
        writes |-> {}]

emergency_stop_holdmoves(sv, d, poses, mode, hw) ==
    IF mode = "detach" THEN DetachAll(sv, d, hw)
    ELSE go_safe_pose(sv, d, poses, "none", hw)

\* emergency_stop: what the mode does to servos and driver
emergency_stop(sv, d, poses, mode, hw) ==
    IF mode = "detach" THEN DetachAll(sv, d, hw)
    ELSE IF mode = "hold" THEN [sv |-> sv, d |-> d, ok |-> TRUE, writes |-> {}]
    ELSE go_safe_pose(sv, d, poses, "none", hw)

Severity(st) ==
    IF st = "normal" THEN 0 ELSE IF st = "warning" THEN 1
    ELSE IF st = "emergency" THEN 2 ELSE 3

(* ----------------------------- the event ------------------------------ *)

Event(op, id, angle, mode, ok, writes, gap) ==
    [op |-> op, id |-> id, angle |-> angle, mode |-> mode, ok |-> ok,
     writes |-> writes, gap |-> gap]

\* watchdog_pet, when the handler calls it
Pet(pets) == IF pets THEN 0 ELSE idle

\* The keyframe lists keyframe_add builds: any list in non-decreasing time order
AuthoredTracks ==
    {k \in UNION {[1..n -> [time : AuthorTimes, value : AuthorValues]] : n \in 0..MaxTrackLen} :
        \A i \in 1..(Len(k) - 1) : k[i].time <= k[i + 1].time}

(* ------------------------------- Init --------------------------------- *)

\* load_config: the registries servo_config.json can hold at startup
ConfigFiles ==
    { [s \in ServoIds |-> AbsentServo] } \cup
    { [s \in ServoIds |-> IF s = "a" THEN [NewServo(0, "normal") EXCEPT !.enabled = en]
                          ELSE AbsentServo] : en \in BOOLEAN }

\* State after ServoController, ServoRegistry, SafetySystem and PresetEngine are
\* constructed (app.py), before any watchdog_start.  allInit: the process was
\* launched through run.py, which initializes all sixteen channels.
InitOutsideTimeline ==
    /\ servos \in ConfigFiles
    /\ \E allInit \in BOOLEAN : drv = [c \in Channels |-> NewChannel(allInit)]
    /\ current_state = "normal"
    /\ safe_poses = DefaultSafePoses(servos)
    /\ watchdog_enabled = FALSE
    /\ watchdog_timeout = MaxTimeout
    /\ idle = 0
    /\ wd_pc = "none"
    /\ wd_slept = FALSE
    /\ since_fire = -1
    /\ preset = [n \in PresetNames |->
                    [running |-> FALSE, paused |-> FALSE, targets |-> {}, pos |-> NoRequest]]
    /\ preset_thread = FALSE
    /\ preset_definitions = [n \in PresetNames |-> [rate |-> NodRate, loop |-> TRUE]]
    /\ watchdog_lock = [owner |-> "", waiting |-> {}]
    /\ alias_map = [x \in AliasNames |-> ""]
    /\ channel_map = [c \in Channels |->
                         IF \E s \in Registered(servos) : servos[s].channel = c
                         THEN CHOOSE s \in Registered(servos) : servos[s].channel = c
                         ELSE ""]
    /\ in_driver = [t \in Threads |-> NoCall]
    /\ ev = Event("init", "", NoAngle, "", TRUE, {}, -1)

\* The state the process starts in: TimelineEngine.__init__ has run as well
Init ==
    /\ InitOutsideTimeline
    /\ tl = NewTimelineEngine

\* A timeline with one track whose keyframes were authored with keyframe_add
SimplifyInit ==
    /\ InitOutsideTimeline
    /\ tl \in {[NewTimelineEngine EXCEPT !.timeline = TRUE, !.track = TRUE, !.kf = k] :
                  k \in AuthoredTracks}

\* The tracks of one to three keyframes at distinct times
EasedTracks ==
    {k \in UNION {[1..n -> [time : EasedTimes, value : EasedValues, ease : EaseTypes]] :
                     n \in 1..Cardinality(EasedTimes)} :
        \A i \in 1..(Len(k) - 1) : k[i].time < k[i + 1].time}

\* A timeline with one track, authored with keyframe_add(..., ease)
EasedInit ==
    /\ InitOutsideTimeline
    /\ tl \in {[NewTimelineEngine EXCEPT !.timeline = TRUE, !.track = TRUE, !.kf = k] :
                  k \in EasedTracks}

\* A timeline with two tracks for servo "a", with any flags
FlaggedInit ==
    /\ InitOutsideTimeline
    /\ tl \in {[NewTimelineEngine EXCEPT !.timeline = TRUE, !.flagged = g] :
                  g \in {f \in [1..Len(GateValues) ->
                                   [enabled : BOOLEAN, solo : BOOLEAN, muted : BOOLEAN,
                                    value : {GateValues[i] : i \in 1..Len(GateValues)}]] :
                            \A i \in 1..Len(GateValues) : f[i].value = GateValues[i]}}

\* A timeline with one track for servo "a" that goes from 30 to 150 degrees
ScrubInit ==
    /\ InitOutsideTimeline
    /\ tl = [NewTimelineEngine EXCEPT
                !.timeline = TRUE, !.track = TRUE,
                !.kf = <<[time |-> 0, value |-> 30], [time |-> TlDuration, value |-> 150]>>]

\* A timeline with one empty track for servo "a", after a play and a stop: the
\* transport thread is alive
AuthorInit ==
    /\ InitOutsideTimeline
    /\ "a" \in Registered(servos)
    /\ tl = [NewTimelineEngine EXCEPT !.timeline = TRUE, !.track = TRUE, !.pc = "check"]

(* ----------------------- registry operations -------------------------- *)

\* register_servo (POST /api/servo/register, or the register_servo socket event,
\* which pets the watchdog)
Register(id, ch, orient, pets) ==
    LET ok == /\ id \notin Registered(servos)
              /\ ~ChannelTaken(channel_map, ch)
              /\ 0 <= ch /\ ch <= MaxChannel
    IN /\ servos' = IF ok THEN [servos EXCEPT ![id] = NewServo(ch, orient)] ELSE servos
       /\ channel_map' = IF ok THEN [channel_map EXCEPT ![ch] = id] ELSE channel_map
       /\ idle' = Pet(pets)
       /\ ev' = Event("register", id, NoAngle, "", ok, {}, -1)
       /\ UNCHANGED <<in_driver, alias_map, tl,
                      drv, current_state, safe_poses, watchdog_enabled, watchdog_timeout,
                      wd_pc, wd_slept, since_fire, preset, preset_thread, preset_definitions, watchdog_lock>>

SetSoftLimits_unchecked(identifier, lim) ==
    LET s == resolve_servo(servos, identifier)
        ok == s # ""
    IN /\ servos' = IF ok THEN [servos EXCEPT ![s].min_deg = lim[1], ![s].max_deg = lim[2]]
                    ELSE servos
       /\ ev' = Event("set_soft_limits", s, lim[1], "", ok, {}, lim[2])
       /\ UNCHANGED <<in_driver, alias_map, channel_map, tl,
                      drv, current_state, safe_poses, watchdog_enabled, watchdog_timeout,
                      idle, wd_pc, wd_slept, since_fire, preset, preset_thread, preset_definitions, watchdog_lock>>

\* set_soft_limits (POST /api/servo/<identifier>/limits); the event keeps the
\* requested min_deg as angle and max_deg as gap
SetSoftLimits(identifier, lim) ==
    LET s == resolve_servo(servos, identifier)
        ok == /\ s # ""
              /\ lim[1] < lim[2]
              /\ 0 <= lim[1] /\ lim[1] <= 180 /\ 0 <= lim[2] /\ lim[2] <= 180
    IN /\ servos' = IF ok THEN [servos EXCEPT ![s].min_deg = lim[1], ![s].max_deg = lim[2]]
                    ELSE servos
       /\ ev' = Event("set_soft_limits", s, lim[1], "", ok, {}, lim[2])
       /\ UNCHANGED <<in_driver, alias_map, channel_map, tl,
                      drv, current_state, safe_poses, watchdog_enabled, watchdog_timeout,
                      idle, wd_pc, wd_slept, since_fire, preset, preset_thread, preset_definitions, watchdog_lock>>

RenameServo_keepmap(old_id, new_id) ==
    LET ok == old_id \in Registered(servos) /\ new_id \notin Registered(servos) IN
    /\ servos' = IF ok THEN [servos EXCEPT ![new_id] = servos[old_id], ![old_id] = AbsentServo]
                 ELSE servos
    /\ alias_map' = IF ok THEN [x \in AliasNames |->
                                   IF alias_map[x] = old_id THEN new_id ELSE alias_map[x]]
                    ELSE alias_map
    /\ ev' = Event("rename", old_id, NoAngle, new_id, ok, {}, -1)
    /\ UNCHANGED <<in_driver, channel_map, tl, drv, current_state, safe_poses, watchdog_enabled,
                   watchdog_timeout, idle, wd_pc, wd_slept, since_fire, preset,
                   preset_thread, preset_definitions, watchdog_lock>>

RenameServo_keepalias(old_id, new_id) ==
    LET ok == old_id \in Registered(servos) /\ new_id \notin Registered(servos) IN
    /\ servos' = IF ok THEN [servos EXCEPT ![new_id] = servos[old_id], ![old_id] = AbsentServo]
                 ELSE servos
    /\ channel_map' = IF ok THEN [channel_map EXCEPT ![servos[old_id].channel] = new_id]
                      ELSE channel_map
    /\ ev' = Event("rename", old_id, NoAngle, new_id, ok, {}, -1)
    /\ UNCHANGED <<in_driver, alias_map, tl, drv, current_state, safe_poses, watchdog_enabled,
                   watchdog_timeout, idle, wd_pc, wd_slept, since_fire, preset,
                   preset_thread, preset_definitions, watchdog_lock>>

\* rename_servo; the event keeps old_id as id and new_id as mode
RenameServo(old_id, new_id) ==
    LET ok == old_id \in Registered(servos) /\ new_id \notin Registered(servos) IN
    /\ servos' = IF ok THEN [servos EXCEPT ![new_id] = servos[old_id], ![old_id] = AbsentServo]
                 ELSE servos
    /\ channel_map' = IF ok THEN [channel_map EXCEPT ![servos[old_id].channel] = new_id]
                      ELSE channel_map
    /\ alias_map' = IF ok THEN [x \in AliasNames |->
                                   IF alias_map[x] = old_id THEN new_id ELSE alias_map[x]]
                    ELSE alias_map
    /\ ev' = Event("rename", old_id, NoAngle, new_id, ok, {}, -1)
    /\ UNCHANGED <<in_driver, tl, drv, current_state, safe_poses, watchdog_enabled,
                   watchdog_timeout, idle, wd_pc, wd_slept, since_fire, preset,
                   preset_thread, preset_definitions, watchdog_lock>>

\* alias_servo; the event keeps the alias as mode
AliasServo(id, alias) ==
    LET ok == id \in Registered(servos) /\ ~AliasTaken(alias_map, alias) IN
    /\ alias_map' = IF ok THEN [alias_map EXCEPT ![alias] = id] ELSE alias_map
    /\ ev' = Event("alias", id, NoAngle, alias, ok, {}, -1)
    /\ UNCHANGED <<in_driver, servos, channel_map, tl, drv, current_state, safe_poses,
                   watchdog_enabled, watchdog_timeout, idle, wd_pc, wd_slept, since_fire,
                   preset, preset_thread, preset_definitions, watchdog_lock>>

\* get_servo_id: the event keeps the identifier as mode and the id found as id
GetServoId(identifier) ==
    /\ ev' = Event("resolve", resolve_servo(servos, identifier), NoAngle, identifier,
                   resolve_servo(servos, identifier) # "", {}, -1)
    /\ UNCHANGED <<in_driver, servos, alias_map, channel_map, tl, drv, current_state, safe_poses,
                   watchdog_enabled, watchdog_timeout, idle, wd_pc, wd_slept, since_fire,
                   preset, preset_thread, preset_definitions, watchdog_lock>>

\* calibrate_servo (POST /api/servo/<identifier>/calibrate)
CalibrateServo(identifier, min_us, max_us) ==
    LET s == resolve_servo(servos, identifier)
        ok == s # "" /\ min_us < max_us
    IN /\ servos' = IF ok THEN [servos EXCEPT ![s].min_pulse_us = min_us,
                                              ![s].max_pulse_us = max_us,
                                              ![s].center_deg = DefaultAngle]
                    ELSE servos
       /\ ev' = Event("calibrate", s, NoAngle, "", ok, {}, -1)
       /\ UNCHANGED <<in_driver, alias_map, channel_map, tl, drv, current_state, safe_poses,
                      watchdog_enabled, watchdog_timeout, idle, wd_pc, wd_slept,
                      since_fire, preset, preset_thread, preset_definitions, watchdog_lock>>

\* ServoRegistry.clamp_angle(id, angle); the event keeps the identifier as mode,
\* the angle given as gap and the angle returned as angle
ClampAngle(identifier, angle) ==
    LET s == resolve_servo(servos, identifier) IN
    /\ ev' = Event("clamp", s, IF s = "" THEN angle ELSE clamp_angle(servos[s], angle),
                   identifier, s # "", {}, angle)
    /\ UNCHANGED <<in_driver, servos, alias_map, channel_map, tl, drv, current_state, safe_poses,
                   watchdog_enabled, watchdog_timeout, idle, wd_pc, wd_slept, since_fire,
                   preset, preset_thread, preset_definitions, watchdog_lock>>

\* clamp_angle applied to the angle the last clamp_angle returned
ClampAgain(identifier) ==
    /\ ev.op = "clamp"
    /\ ClampAngle(identifier, ev.angle)

(* ------------------------- operator commands -------------------------- *)

\* handle_servo_angle (the set_servo_angle socket event)
SetAngle(identifier, angle, hw) ==
    LET s == resolve_servo(servos, identifier)
        req == [t \in ServoIds |-> IF t = s THEN angle ELSE NoAngle]
        acc == Accepted(servos, drv, req, hw)
    IN /\ idle' = 0
       /\ servos' = StoreAll(servos, req, acc)
       /\ drv' = DriveAll(servos, drv, req, Addressed(servos, req), hw)
       /\ ev' = Event("set_angle", s, angle, "", acc # {}, PulsesOf(servos, req, acc), -1)
       /\ UNCHANGED <<in_driver, alias_map, channel_map, tl,
                      current_state, safe_poses, watchdog_enabled, watchdog_timeout,
                      wd_pc, wd_slept, since_fire, preset, preset_thread, preset_definitions, watchdog_lock>>

\* handle_enable_servo
EnableServo(identifier, hw) ==
    LET s == resolve_servo(servos, identifier) IN
    /\ idle' = 0
    /\ IF s = ""
       THEN /\ UNCHANGED <<servos, drv>>
            /\ ev' = Event("enable", s, NoAngle, "", FALSE, {}, -1)
       ELSE LET c == servos[s].channel
                c2 == enable_servo(drv[c], hw[c])
            IN /\ drv' = [drv EXCEPT ![c] = c2]
               /\ servos' = [servos EXCEPT ![s].enabled = TRUE]
               /\ ev' = Event("enable", s, NoAngle, "", TRUE,
                              IF enable_servo_ok(drv[c], hw[c]) THEN {<<c, c2.angle>>} ELSE {},
                              -1)
    /\ UNCHANGED <<in_driver, alias_map, channel_map, tl,
                   current_state, safe_poses, watchdog_enabled, watchdog_timeout,
                   wd_pc, wd_slept, since_fire, preset, preset_thread, preset_definitions, watchdog_lock>>

\* handle_disable_servo
DisableServo(identifier, hw) ==
    LET s == resolve_servo(servos, identifier) IN
    /\ idle' = 0
    /\ IF s = ""
       THEN UNCHANGED <<servos, drv>>
       ELSE /\ drv' = [drv EXCEPT ![servos[s].channel] = disable_servo(@, hw[servos[s].channel])]
            /\ servos' = [servos EXCEPT ![s].enabled = FALSE]
    /\ ev' = Event("disable", s, NoAngle, "", s # "", {}, -1)
    /\ UNCHANGED <<in_driver, alias_map, channel_map, tl,
                   current_state, safe_poses, watchdog_enabled, watchdog_timeout,
                   wd_pc, wd_slept, since_fire, preset, preset_thread, preset_definitions, watchdog_lock>>

\* GET /api/status: pets the watchdog
Status ==
    /\ idle' = 0
    /\ ev' = Event("status", "", NoAngle, "", TRUE, {}, -1)
    /\ UNCHANGED <<in_driver, alias_map, channel_map, tl,
                   servos, drv, current_state, safe_poses, watchdog_enabled,
                   watchdog_timeout, wd_pc, wd_slept, since_fire, preset, preset_thread, preset_definitions, watchdog_lock>>

(* ------------------------- safety operations -------------------------- *)

\* POST /api/safety/safe_pose
GoSafePose(pose_name, hw) ==
    LET r == go_safe_pose(servos, drv, safe_poses, pose_name, hw) IN
    /\ servos' = r.sv
    /\ drv' = r.d
    /\ ev' = Event("go_safe_pose", "", NoAngle, pose_name, r.ok, r.writes, -1)
    /\ UNCHANGED <<in_driver, alias_map, channel_map, tl,
                   current_state, safe_poses, watchdog_enabled, watchdog_timeout,
                   idle, wd_pc, wd_slept, since_fire, preset, preset_thread, preset_definitions, watchdog_lock>>

\* handle_emergency_stop -> SafetySystem.emergency_stop
EmergencyStop(mode, hw) ==
    LET r == emergency_stop(servos, drv, safe_poses, mode, hw) IN
    /\ current_state' = "emergency"
    /\ servos' = r.sv
    /\ drv' = r.d
    /\ ev' = Event("emergency_stop", "", NoAngle, mode, r.ok, r.writes, -1)
    /\ UNCHANGED <<in_driver, alias_map, channel_map, tl,
                   safe_poses, watchdog_enabled, watchdog_timeout, idle,
                   wd_pc, wd_slept, since_fire, preset, preset_thread, preset_definitions, watchdog_lock>>

\* reset_safety_state
ResetSafetyState ==
    LET ok == current_state \in {"emergency", "fault"} IN
    /\ current_state' = IF ok THEN "normal" ELSE current_state
    /\ ev' = Event("reset", "", NoAngle, current_state, ok, {}, -1)
    /\ UNCHANGED <<in_driver, alias_map, channel_map, tl,
                   servos, drv, safe_poses, watchdog_enabled, watchdog_timeout,
                   idle, wd_pc, wd_slept, since_fire, preset, preset_thread, preset_definitions, watchdog_lock>>

\* The four angles preflight_check hands the driver for servo m, in order
PreflightAngles(m) ==
    << apply_orientation(m, m.min_deg + PreflightMargin),
       apply_orientation(m, (m.min_deg + m.max_deg) \div 2),
       apply_orientation(m, m.max_deg - PreflightMargin),
       apply_orientation(m, m.center_deg) >>

\* Soft limits are floats (0.0, 180.0) until set_soft_limits stores the JSON
\* integers of LimitInputs and PreflightLimits
FloatLimit(x) == x \in {DefaultMinDeg, DefaultMaxDeg}

\* f"angle_{test_angle}": an int prints as "65", a float as "65.0"
AngleKey(isFloat, v) == <<v, IF isFloat THEN ".0" ELSE "">>

\* The keys of servo_result["tests"] after the three tests of one servo
PreflightKeys(m) ==
    { AngleKey(FloatLimit(m.min_deg), m.min_deg + PreflightMargin),
      AngleKey(TRUE, (m.min_deg + m.max_deg) \div 2),
      AngleKey(FloatLimit(m.max_deg), m.max_deg - PreflightMargin) }

\* The driver channel after the three test writes of servo record m
AfterTests(m, c, hwok) ==
    set_servo_angle(set_servo_angle(set_servo_angle(c, PreflightAngles(m)[1], hwok),
                                    PreflightAngles(m)[2], hwok),
                    PreflightAngles(m)[3], hwok)

\* preflight_check (POST /api/safety/preflight).  hw: the outcome of the test
\* writes, hwc: of the return to center.  No call in the try blocks raises, so
\* results["warnings"] stays empty.  The event keeps overall_status as mode and
\* the number of per-angle tests recorded as gap.
Preflight(hw, hwc) ==
    LET reg == Registered(servos)
        okS == {s \in reg : set_servo_angle_ok(drv[servos[s].channel], hw[servos[s].channel])}
        okC == {s \in reg :
                  set_servo_angle_ok(AfterTests(servos[s], drv[servos[s].channel],
                                                hw[servos[s].channel]),
                                     hwc[servos[s].channel])}
        errors == reg \ okS
        warnings == {}
        recorded == UNION {{<<s, k>> : k \in PreflightKeys(servos[s])} : s \in reg}
    IN /\ drv' = [c \in Channels |->
                    IF \E s \in reg : servos[s].channel = c
                    THEN LET s == CHOOSE t \in reg : servos[t].channel = c
                         IN set_servo_angle(AfterTests(servos[s], drv[c], hw[c]),
                                            PreflightAngles(servos[s])[4], hwc[c])
                    ELSE drv[c]]
       /\ ev' = Event("preflight", "", NoAngle,
                      IF errors # {} THEN "fail"
                      ELSE IF warnings # {} THEN "warning" ELSE "pass",
                      okC = reg,
                      {<<servos[s].channel,
                         Max2(0, Min2(DriverMaxAngle, PreflightAngles(servos[s])[i]))>> :
                           s \in okS, i \in 1..3}
                      \cup {<<servos[s].channel,
                              Max2(0, Min2(DriverMaxAngle, PreflightAngles(servos[s])[4]))>> :
                           s \in okC},
                      Cardinality(recorded))
       /\ UNCHANGED <<in_driver, alias_map, channel_map, tl,
                      servos, current_state, safe_poses, watchdog_enabled, watchdog_timeout,
                      idle, wd_pc, wd_slept, since_fire, preset, preset_thread, preset_definitions, watchdog_lock>>

(* ------------------------------ watchdog ------------------------------ *)

\* watchdog_start
WatchdogStart(timeout) ==
    /\ watchdog_timeout' = timeout
    /\ watchdog_enabled' = TRUE
    /\ idle' = 0
    /\ wd_pc' = IF wd_pc = "none" THEN "loop" ELSE wd_pc
    /\ ev' = Event("watchdog_start", "", NoAngle, "", TRUE, {}, -1)
    /\ UNCHANGED <<in_driver, alias_map, channel_map, tl,
                   servos, drv, current_state, safe_poses, wd_slept, since_fire,
                   preset, preset_thread, preset_definitions, watchdog_lock>>

\* watchdog_stop
WatchdogStop ==
    /\ watchdog_enabled' = FALSE
    /\ ev' = Event("watchdog_stop", "", NoAngle, "", TRUE, {}, -1)
    /\ UNCHANGED <<in_driver, alias_map, channel_map, tl,
                   servos, drv, current_state, safe_poses, watchdog_timeout, idle,
                   wd_pc, wd_slept, since_fire, preset, preset_thread, preset_definitions, watchdog_lock>>

\* _watchdog_worker: the test of `while self.watchdog_enabled`
WdLoop ==
    /\ wd_pc = "loop"
    /\ wd_pc' = IF watchdog_enabled THEN "sleep" ELSE "exit"
    /\ wd_slept' = FALSE
    /\ ev' = Event("wd_loop", "", NoAngle, "", watchdog_enabled, {}, -1)
    /\ UNCHANGED <<in_driver, alias_map, channel_map, tl,
                   servos, drv, current_state, safe_poses, watchdog_enabled,
                   watchdog_timeout, idle, since_fire, preset, preset_thread, preset_definitions, watchdog_lock>>

after_timeout_stale(age) == age

\* _watchdog_worker, `self.last_activity = time.time()` after a timeout: the age of
\* last_activity afterwards
after_timeout(age) == 0

\* _watchdog_worker: after time.sleep(0.1), the check under watchdog_lock and,
\* on a timeout, the callback (go_safe_pose), the fault state and the reset
WdWake(hw) ==
    /\ wd_pc = "sleep"
    /\ wd_slept
    /\ wd_pc' = "loop"
    /\ IF idle > watchdog_timeout
       THEN LET r == go_safe_pose(servos, drv, safe_poses, "none", hw) IN
            /\ servos' = r.sv
            /\ drv' = r.d
            /\ current_state' = "fault"
            /\ idle' = after_timeout(idle)
            /\ since_fire' = 0
            /\ ev' = Event("wd_fire", "", NoAngle, "", r.ok, r.writes, since_fire)
       ELSE /\ ev' = Event("wd_check", "", NoAngle, "", TRUE, {}, -1)
            /\ UNCHANGED <<servos, drv, current_state, idle, since_fire>>
    /\ UNCHANGED <<in_driver, alias_map, channel_map, tl,
                   safe_poses, watchdog_enabled, watchdog_timeout, wd_slept,
                   preset, preset_thread, preset_definitions, watchdog_lock>>

WdWakeRaising_escapes ==
    /\ wd_pc = "sleep"
    /\ wd_slept
    /\ idle > watchdog_timeout
    /\ wd_pc' = "none"
    /\ ev' = Event("wd_fire", "", NoAngle, "raised", FALSE, {}, since_fire)
    /\ UNCHANGED <<in_driver, alias_map, channel_map, tl, servos, drv, current_state, idle,
                   since_fire, safe_poses, watchdog_enabled, watchdog_timeout, wd_slept,
                   preset, preset_thread, preset_definitions, watchdog_lock>>

\* _watchdog_worker on a timeout whose on_timeout_callback raises before it
\* moved a servo, or whose Fault callbacks raise: the except clauses print the
\* error and the worker goes on
WdWakeRaising ==
    /\ wd_pc = "sleep"
    /\ wd_slept
    /\ idle > watchdog_timeout
    /\ wd_pc' = "loop"
    /\ current_state' = "fault"
    /\ idle' = after_timeout(idle)
    /\ since_fire' = 0
    /\ ev' = Event("wd_fire", "", NoAngle, "raised", FALSE, {}, since_fire)
    /\ UNCHANGED <<in_driver, alias_map, channel_map, tl, servos, drv,
                   safe_poses, watchdog_enabled, watchdog_timeout, wd_slept,
                   preset, preset_thread, preset_definitions, watchdog_lock>>

\* _watchdog_worker on a timeout whose on_timeout_callback calls watchdog_pet:
\* the worker is inside `with self.watchdog_lock`, a threading.Lock, and
\* watchdog_pet asks for the same lock; the worker waits for itself
WdWakePetting ==
    /\ wd_pc = "sleep"
    /\ wd_slept
    /\ idle > watchdog_timeout
    /\ wd_pc' = "pet"
    /\ watchdog_lock' = [owner |-> "watchdog",
                         waiting |-> watchdog_lock.waiting \cup {"watchdog"}]
    /\ ev' = Event("wd_fire", "", NoAngle, "petting", FALSE, {}, since_fire)
    /\ UNCHANGED <<in_driver, alias_map, channel_map, tl, servos, drv, current_state, idle,
                   since_fire, safe_poses, watchdog_enabled, watchdog_timeout, wd_slept,
                   preset, preset_thread, preset_definitions>>

\* watchdog_pet called by thread t: last_activity is set once the lock is had;
\* while another thread holds the lock the call waits
WatchdogPet(t) ==
    /\ t \notin watchdog_lock.waiting
    /\ IF watchdog_lock.owner = ""
       THEN /\ idle' = 0
            /\ UNCHANGED watchdog_lock
       ELSE /\ watchdog_lock' = [watchdog_lock EXCEPT !.waiting = @ \cup {t}]
            /\ UNCHANGED idle
    /\ ev' = Event("pet", t, NoAngle, "", watchdog_lock.owner = "", {}, -1)
    /\ UNCHANGED <<in_driver, alias_map, channel_map, tl, servos, drv, current_state,
                   since_fire, safe_poses, watchdog_enabled, watchdog_timeout, wd_pc,
                   wd_slept, preset, preset_thread, preset_definitions>>

\* _watchdog_worker returns: the thread stops being alive
WdExit ==
    /\ wd_pc = "exit"
    /\ wd_pc' = "none"
    /\ ev' = Event("wd_exit", "", NoAngle, "", TRUE, {}, -1)
    /\ UNCHANGED <<in_driver, alias_map, channel_map, tl,
                   servos, drv, current_state, safe_poses, watchdog_enabled,
                   watchdog_timeout, idle, wd_slept, since_fire,
                   preset, preset_thread, preset_definitions, watchdog_lock>>

\* 100 ms pass: every age grows by one sample
Tick ==
    /\ idle' = Min2(idle + 1, MaxAge)
    /\ since_fire' = IF since_fire = -1 THEN -1 ELSE Min2(since_fire + 1, MaxAge)
    /\ wd_slept' = TRUE
    /\ ev' = Event("tick", "", NoAngle, "", TRUE, {}, -1)
    /\ UNCHANGED <<in_driver, alias_map, channel_map, tl,
                   servos, drv, current_state, safe_poses, watchdog_enabled,
                   watchdog_timeout, wd_pc, preset, preset_thread, preset_definitions, watchdog_lock>>

(* ---------------------------- preset engine --------------------------- *)

NoInstance == [running |-> FALSE, paused |-> FALSE, targets |-> {}, pos |-> NoRequest]

\* preset_play (POST /api/preset/<name>/play, or the play_preset socket event,
\* which pets the watchdog)
PresetPlay(name, targets, rate, loop, pets) ==
    LET ok == targets # {} IN
    /\ preset_definitions' =
          IF ok
          THEN [preset_definitions EXCEPT
                   ![name] = [rate |-> IF rate # DefaultRate THEN rate ELSE @.rate,
                              loop |-> loop]]
          ELSE preset_definitions
    /\ preset' = IF ok
                 THEN [preset EXCEPT ![name] =
                          [running |-> TRUE, paused |-> FALSE, targets |-> targets,
                           pos |-> [s \in ServoIds |->
                                       IF s \in targets THEN DefaultAngle ELSE NoAngle]]]
                 ELSE preset
    /\ preset_thread' = (preset_thread \/ ok)
    /\ idle' = Pet(pets)
    /\ ev' = Event("preset_play", "", NoAngle, name, ok, {}, rate)
    /\ UNCHANGED <<in_driver, alias_map, channel_map, tl,
                   servos, drv, current_state, safe_poses, watchdog_enabled,
                   watchdog_timeout, wd_pc, wd_slept, since_fire, watchdog_lock>>

PresetStop_pauses(name) ==
    /\ preset' = IF preset[name].running THEN [preset EXCEPT ![name].paused = TRUE]
                 ELSE preset
    /\ ev' = Event("preset_stop", "", NoAngle, name, preset[name].running, {}, -1)
    /\ UNCHANGED <<in_driver, alias_map, channel_map, tl,
                   servos, drv, current_state, safe_poses, watchdog_enabled,
                   watchdog_timeout, idle, wd_pc, wd_slept, since_fire,
                   preset_thread, preset_definitions, watchdog_lock>>

\* preset_stop
PresetStop(name) ==
    /\ preset' = [preset EXCEPT ![name] = NoInstance]
    /\ ev' = Event("preset_stop", "", NoAngle, name, preset[name].running, {}, -1)
    /\ UNCHANGED <<in_driver, alias_map, channel_map, tl,
                   servos, drv, current_state, safe_poses, watchdog_enabled,
                   watchdog_timeout, idle, wd_pc, wd_slept, since_fire,
                   preset_thread, preset_definitions, watchdog_lock>>

\* preset_pause
PresetPause(name) ==
    /\ preset' = IF preset[name].running THEN [preset EXCEPT ![name].paused = TRUE]
                 ELSE preset
    /\ ev' = Event("preset_pause", "", NoAngle, name, preset[name].running, {}, -1)
    /\ UNCHANGED <<in_driver, alias_map, channel_map, tl,
                   servos, drv, current_state, safe_poses, watchdog_enabled,
                   watchdog_timeout, idle, wd_pc, wd_slept, since_fire,
                   preset_thread, preset_definitions, watchdog_lock>>

\* preset_resume
PresetResume(name) ==
    /\ preset' = IF preset[name].running THEN [preset EXCEPT ![name].paused = FALSE]
                 ELSE preset
    /\ ev' = Event("preset_resume", "", NoAngle, name, preset[name].running, {}, -1)
    /\ UNCHANGED <<in_driver, alias_map, channel_map, tl,
                   servos, drv, current_state, safe_poses, watchdog_enabled,
                   watchdog_timeout, idle, wd_pc, wd_slept, since_fire,
                   preset_thread, preset_definitions, watchdog_lock>>

\* PresetInstance.update: the positions the instance reports on a tick, g being
\* what its generator computes
InstanceUpdate(inst, g) ==
    IF ~inst.running \/ inst.paused THEN inst.pos
    ELSE [s \in ServoIds |-> IF s \in inst.targets THEN g ELSE NoAngle]

\* _update_worker: one pass of the loop over the running instances
PresetTick(name, g, hw) ==
    LET inst == preset[name]
        newpos == InstanceUpdate(inst, g)
        req == [s \in ServoIds |->
                   IF inst.running /\ s \in Registered(servos) /\ servos[s].enabled
                   THEN newpos[s] ELSE NoAngle]
        att == Addressed(servos, req)
    IN /\ preset_thread
       /\ preset' = [preset EXCEPT ![name].pos = newpos]
       /\ servos' = StoreAll(servos, req, att)
       /\ drv' = DriveAll(servos, drv, req, att, hw)
       /\ ev' = Event("preset_tick", "", NoAngle, name, TRUE,
                      PulsesOf(servos, req, Accepted(servos, drv, req, hw)), -1)
       /\ UNCHANGED <<in_driver, alias_map, channel_map, tl,
                      current_state, safe_poses, watchdog_enabled, watchdog_timeout,
                      idle, wd_pc, wd_slept, since_fire, preset_thread, preset_definitions, watchdog_lock>>

(* ------------------- driver calls, call by call ------------------------ *)

\* May thread t call set_servo_angle for servo i with the angle a?  The
\* set_angle handler does for a servo that resolves, _update_worker for an
\* enabled target of a running instance.
MayCall(t, i, a) ==
    /\ i \in Registered(servos)
    /\ IF t = "operator" THEN a \in CmdAngles
       ELSE /\ a \in GenAngles
            /\ preset_thread
            /\ \E n \in PresetNames : preset[n].running /\ i \in preset[n].targets
            /\ servos[i].enabled

\* Thread t enters ServoController.set_servo_angle: nothing makes it wait
DrvBegin(t, i, a) ==
    /\ in_driver[t] = NoCall
    /\ MayCall(t, i, a)
    /\ in_driver' = [in_driver EXCEPT ![t] = [s |-> i, safe |-> clamp_angle(servos[i], a)]]
    /\ idle' = IF t = "operator" THEN 0 ELSE idle
    /\ ev' = Event("drv_begin", i, a, t, TRUE, {}, -1)
    /\ UNCHANGED <<servos, drv, current_state, safe_poses, watchdog_enabled,
                   watchdog_timeout, wd_pc, wd_slept, since_fire, preset, preset_thread, preset_definitions, watchdog_lock,
                   alias_map, channel_map, tl>>

\* Thread t returns from set_servo_angle and stores the angle: the handler when
\* the write succeeded, the worker always
DrvEnd(t, hw) ==
    LET call == in_driver[t]
        req == [x \in ServoIds |->
                   IF x = call.s /\ x \in Registered(servos) THEN call.safe ELSE NoAngle]
        acc == Accepted(servos, drv, req, hw)
    IN /\ call # NoCall
       /\ in_driver' = [in_driver EXCEPT ![t] = NoCall]
       /\ drv' = DriveAll(servos, drv, req, Addressed(servos, req), hw)
       /\ servos' = StoreAll(servos, req,
                             IF t = "operator" THEN acc ELSE Addressed(servos, req))
       /\ ev' = Event("drv_end", call.s, call.safe, t, acc # {},
                      PulsesOf(servos, req, acc), -1)
       /\ UNCHANGED <<idle, current_state, safe_poses, watchdog_enabled,
                      watchdog_timeout, wd_pc, wd_slept, since_fire, preset, preset_thread, preset_definitions, watchdog_lock,
                      alias_map, channel_map, tl>>

(* --------------------------- timeline engine -------------------------- *)

\* The variables no timeline operation touches but through the servo path
OtherVars ==
    <<current_state, safe_poses, watchdog_enabled, watchdog_timeout, wd_pc, wd_slept,
      since_fire, preset, preset_thread, preset_definitions, watchdog_lock, alias_map, channel_map, in_driver>>

\* timeline_new (POST /api/timeline): the first timeline becomes the active one
TimelineNew ==
    /\ tl' = IF tl.timeline THEN tl
             ELSE [tl EXCEPT !.timeline = TRUE, !.loop = FALSE, !.track = FALSE, !.kf = <<>>]
    /\ ev' = Event("tl_new", "", NoAngle, "", ~tl.timeline, {}, -1)
    /\ UNCHANGED <<servos, drv, idle, OtherVars>>

\* track_add: a track with the target "a"
TrackAdd ==
    LET ok == tl.timeline /\ ~tl.track IN
    /\ tl' = IF ok THEN [tl EXCEPT !.track = TRUE, !.kf = <<>>] ELSE tl
    /\ ev' = Event("tl_track", "a", NoAngle, "", ok, {}, -1)
    /\ UNCHANGED <<servos, drv, idle, OtherVars>>

\* bisect.insort: the keyframe goes after the keyframes whose time is <= its own
Insort(kf, k) ==
    LET n == Cardinality({i \in 1..Len(kf) : kf[i].time <= k.time})
    IN SubSeq(kf, 1, n) \o <<k>> \o SubSeq(kf, n + 1, Len(kf))

\* keyframe_add: the value is clamped when the track's target resolves
KeyframeAdd(time, value) ==
    LET ok == tl.timeline /\ tl.track
        s == resolve_servo(servos, "a")
        v == IF s # "" /\ ~is_angle_safe(servos[s], value)
             THEN clamp_angle(servos[s], value) ELSE value
    IN /\ Len(tl.kf) < MaxKeyframes
       /\ tl' = IF ok THEN [tl EXCEPT !.kf = Insort(tl.kf, [time |-> time, value |-> v])]
                ELSE tl
       /\ ev' = Event("tl_keyframe", "a", v, "", ok, {}, time)
       /\ UNCHANGED <<servos, drv, idle, OtherVars>>

\* keyframe_add up to the last probe of bisect.insort: the key lambda is Python
\* code and the interpreter may switch threads inside any call of it, so the
\* index is the one for the list as it was at the last probe, and the keyframe
\* is not yet in the list.  An empty list is not probed.
KeyframeFind(time, value) ==
    LET s == resolve_servo(servos, "a")
        v == IF s # "" /\ ~is_angle_safe(servos[s], value)
             THEN clamp_angle(servos[s], value) ELSE value
    IN /\ tl.timeline /\ tl.track
       /\ tl.ins = NoInsert
       /\ Len(tl.kf) >= 1
       /\ Len(tl.kf) < MaxRecorded
       /\ tl' = [tl EXCEPT !.ins = [idx |-> Cardinality({i \in 1..Len(tl.kf) :
                                                          tl.kf[i].time <= time}),
                                    time |-> time, value |-> v, lost |-> FALSE]]
       /\ ev' = Event("tl_find", "a", v, "", TRUE, {}, time)
       /\ UNCHANGED <<servos, drv, idle, OtherVars>>

\* The rest of that bisect.insort: list.insert(index, keyframe) on the list
\* object the call was given, which is no longer the track's when simplify_track
\* has replaced it; an index beyond the end appends
KeyframePut ==
    LET n == Min2(tl.ins.idx, Len(tl.kf))
        k == [time |-> tl.ins.time, value |-> tl.ins.value]
    IN /\ tl.ins # NoInsert
       /\ tl' = [tl EXCEPT !.ins = NoInsert,
                           !.kf = IF tl.ins.lost THEN @
                                  ELSE SubSeq(@, 1, n) \o <<k>> \o SubSeq(@, n + 1, Len(@))]
       /\ ev' = Event("tl_put", "a", tl.ins.value, "", ~tl.ins.lost, {}, tl.ins.time)
       /\ UNCHANGED <<servos, drv, idle, OtherVars>>

\* record_live_start(["a"]): the track for the target is reused, or created
RecordLiveStart ==
    /\ tl.cmds < MaxCommands
    /\ tl' = IF ~tl.timeline THEN [tl EXCEPT !.cmds = @ + 1]
             ELSE [tl EXCEPT !.state = "recording", !.rec_age = 0, !.track = TRUE,
                             !.cmds = @ + 1,
                             !.kf = IF tl.track THEN @ ELSE <<>>,
                             !.live = IF tl.track THEN @ ELSE TRUE]
    /\ ev' = Event("rec_start", "a", NoAngle, "", tl.timeline, {}, -1)
    /\ UNCHANGED <<servos, drv, idle, OtherVars>>

\* record_live_stop
RecordLiveStop ==
    /\ tl' = IF tl.state = "recording" THEN [tl EXCEPT !.state = "stopped"] ELSE tl
    /\ ev' = Event("rec_stop", "", NoAngle, "", tl.state = "recording", {}, -1)
    /\ UNCHANGED <<servos, drv, idle, OtherVars>>

\* _transport_worker while Recording: _record_current_positions inserts the
\* servo's current angle at the time since the recording started (MaxTlAge: that
\* long or longer), then the sleep begins
RecordTick ==
    LET s == resolve_servo(servos, "a") IN
    /\ tl.pc = "check"
    /\ tl.state = "recording"
    /\ Len(tl.kf) < MaxRecorded
    /\ tl' = [tl EXCEPT !.pc = "sleep", !.slept = FALSE,
                        !.kf = IF s = "" THEN @
                               ELSE Insort(@, [time |-> tl.rec_age,
                                               value |-> servos[s].current_angle])]
    /\ ev' = Event("tl_record", s, IF s = "" THEN NoAngle ELSE servos[s].current_angle,
                   "", s # "", {}, tl.rec_age)
    /\ UNCHANGED <<servos, drv, idle, OtherVars>>

\* simplify_track: `abs(curr_kf.value - interpolated_value) > tolerance_deg` with
\* interpolated_value = prev.value + (next.value - prev.value) * (curr.time -
\* prev.time) / (next.time - prev.time), both sides multiplied by next.time -
\* prev.time > 0
Deviates(prev, curr, next, tol) ==
    LET d == (curr.value - prev.value) * (next.time - prev.time)
               - (next.value - prev.value) * (curr.time - prev.time)
    IN (IF d < 0 THEN -d ELSE d) > tol * (next.time - prev.time)

\* simplify_track, the loop `for i in range(1, len(track.keyframes) - 1)` from
\* index i on (1-based) and the append of the last keyframe; prev is the last
\* keyframe kept, next the keyframe after i in the track as it was.  <<>> stands
\* for the ZeroDivisionError of time_ratio when next.time = prev.time.
RECURSIVE SimplifyKeyframes(_, _, _, _)
SimplifyKeyframes(kf, i, kept, tol) ==
    IF i > Len(kf) - 1 THEN Append(kept, kf[Len(kf)])
    ELSE IF kf[i + 1].time = kept[Len(kept)].time THEN <<>>
    ELSE SimplifyKeyframes(kf, i + 1,
                           IF Deviates(kept[Len(kept)], kf[i], kf[i + 1], tol)
                           THEN Append(kept, kf[i]) ELSE kept,
                           tol)

\* simplify_track(timeline, track, tolerance_deg); the event keeps the tolerance
\* as angle, the count returned as gap (-1: nothing is returned, the call raised)
SimplifyTrack(tol) ==
    LET any == tl.timeline /\ tl.track /\ Len(tl.kf) >= 3
        out == SimplifyKeyframes(tl.kf, 2, <<tl.kf[1]>>, tol)
        raised == any /\ out = <<>>
    IN /\ tl' = IF any /\ ~raised
                THEN [tl EXCEPT !.kf = out,
                                !.ins = IF @ = NoInsert THEN @ ELSE [@ EXCEPT !.lost = TRUE]]
                ELSE tl
       /\ ev' = Event("tl_simplify", "a", tol,
                      IF raised THEN "ZeroDivisionError" ELSE "", ~raised, {},
                      IF raised THEN -1 ELSE IF any THEN Len(tl.kf) - Len(out) ELSE 0)
       /\ UNCHANGED <<servos, drv, idle, OtherVars>>

\* Keyframe.ease, LINEAR unless keyframe_add was given one
EaseOf(k) == IF "ease" \in DOMAIN k THEN k.ease ELSE "linear"

ApplyEasing_linear(ease, n, d) == n * d

\* EasingFunctions.apply_easing(ease, n / d) times d * d, with the default
\* tension 0.0, which leaves the quadratic curve of the blend
ApplyEasing(ease, n, d) ==
    LET t == Max2(0, Min2(d, n)) IN
    IF ease = "linear" THEN t * d
    ELSE IF ease = "ease_in" THEN t * t
    ELSE IF ease = "ease_in_out"
         THEN IF 2 * t < d THEN 2 * t * t ELSE (4 * d - 2 * t) * t - d * d
    ELSE t * d

\* _interpolate_track_value; NoAngle for None
InterpolateTrackValue(kf, t) ==
    IF kf = <<>> THEN NoAngle
    ELSE IF t <= kf[1].time THEN kf[1].value
    ELSE IF t >= kf[Len(kf)].time THEN kf[Len(kf)].value
    ELSE LET i == CHOOSE j \in 1..(Len(kf) - 1) :
                      /\ kf[j].time <= t /\ t <= kf[j + 1].time
                      /\ \A h \in 1..(j - 1) : ~(kf[h].time <= t /\ t <= kf[h + 1].time)
         IN IF kf[i + 1].time = kf[i].time THEN kf[i + 1].value
            ELSE LET d == kf[i + 1].time - kf[i].time
                 IN kf[i].value
                      + ((kf[i + 1].value - kf[i].value)
                            * ApplyEasing(EaseOf(kf[i + 1]), t - kf[i].time, d)) \div (d * d)

\* play (POST /api/timeline/<name>/play, or the timeline_transport socket event,
\* which pets the watchdog): playback starts from current_time_ms and the
\* transport thread is started when it is not alive
TlPlay(pets) ==
    /\ tl.cmds < MaxCommands
    /\ idle' = Pet(pets)
    /\ tl' = IF ~tl.timeline THEN [tl EXCEPT !.cmds = @ + 1]
             ELSE [tl EXCEPT !.age = IF tl.state = "paused" THEN tl.pause_age
                                     ELSE tl.current_time,
                             !.state = "playing",
                             !.pc = IF @ = "none" THEN "check" ELSE @,
                             !.cmds = @ + 1]
    /\ ev' = Event("tl_play", "", NoAngle, "", tl.timeline, {}, -1)
    /\ UNCHANGED <<servos, drv, OtherVars>>

\* pause
TlPause ==
    /\ tl.cmds < MaxCommands
    /\ tl' = IF tl.state # "playing" THEN [tl EXCEPT !.cmds = @ + 1]
             ELSE [tl EXCEPT !.state = "paused", !.pause_age = tl.age, !.cmds = @ + 1]
    /\ ev' = Event("tl_pause", "", NoAngle, "", tl.state = "playing", {}, -1)
    /\ UNCHANGED <<servos, drv, idle, OtherVars>>

\* set_speed(rate): playback_speed is assigned first, elapsed_timeline is then
\* computed with it, and start_time = now - elapsed_timeline / rate
SetSpeed(rate) ==
    LET speed == rate
        elapsed_timeline == tl.age * speed
    IN /\ tl' = IF rate <= 0 THEN tl
                ELSE IF tl.state = "playing"
                     THEN [tl EXCEPT !.speed = speed, !.age = elapsed_timeline \div rate]
                     ELSE [tl EXCEPT !.speed = speed]
       /\ ev' = Event("tl_speed", "", NoAngle, tl.state, rate > 0, {}, rate)
       /\ UNCHANGED <<servos, drv, idle, OtherVars>>

\* stop, called by an operator
TlStop(pets) ==
    /\ tl.cmds < MaxCommands
    /\ idle' = Pet(pets)
    /\ tl' = [tl EXCEPT !.state = "stopped", !.current_time = 0, !.cmds = @ + 1]
    /\ ev' = Event("tl_stop", "", NoAngle, "", TRUE, {}, -1)
    /\ UNCHANGED <<servos, drv, OtherVars>>

\* loop_set(name, enabled) with the default loop range [0, duration_ms]
LoopSet(enabled) ==
    /\ tl.cmds < MaxCommands
    /\ tl' = IF tl.timeline
             THEN [tl EXCEPT !.loop = enabled, !.loop_start = 0, !.loop_end = TlDuration,
                             !.cmds = @ + 1]
             ELSE [tl EXCEPT !.cmds = @ + 1]
    /\ ev' = Event("tl_loop", "", NoAngle, "", tl.timeline, {}, -1)
    /\ UNCHANGED <<servos, drv, idle, OtherVars>>

\* loop_set(name, enabled, start_ms, end_ms): `end_ms or timeline.duration_ms`
LoopSetRange(enabled, start, end) ==
    /\ tl.cmds < MaxCommands
    /\ tl' = IF tl.timeline
             THEN [tl EXCEPT !.loop = enabled, !.loop_start = start,
                             !.loop_end = IF end = 0 THEN TlDuration ELSE end,
                             !.cmds = @ + 1]
             ELSE [tl EXCEPT !.cmds = @ + 1]
    /\ ev' = Event("tl_loop", "", NoAngle, "", tl.timeline, {}, -1)
    /\ UNCHANGED <<servos, drv, idle, OtherVars>>

\* _transport_worker: `if self.state == TimelineState.PLAYING and self.active_timeline`
TlCheck ==
    /\ tl.pc = "check"
    /\ tl.state # "recording"
    /\ tl' = IF tl.state = "playing" THEN [tl EXCEPT !.pc = "advance"]
             ELSE [tl EXCEPT !.pc = "sleep", !.slept = FALSE]
    /\ ev' = Event("tl_check", "", NoAngle, "", tl.state = "playing", {}, -1)
    /\ UNCHANGED <<servos, drv, idle, OtherVars>>

AtEnd_never(t) == FALSE

\* `self.current_time_ms >= timeline.duration_ms`
AtEnd(t) == t >= TlDuration

\* _transport_worker: the playhead follows the clock; a looping timeline wraps at
\* loop_end_ms, another one is stopped at its end
TlAdvance ==
    /\ tl.pc = "advance"
    /\ tl' = IF tl.loop
             THEN IF tl.age >= tl.loop_end /\ tl.loop_end - tl.loop_start > 0
                  THEN [tl EXCEPT !.current_time = tl.loop_start, !.age = tl.loop_start,
                                  !.pc = "apply"]
                  ELSE [tl EXCEPT !.current_time = tl.age, !.pc = "apply"]
             ELSE IF AtEnd(tl.age)
                  THEN [tl EXCEPT !.current_time = tl.age, !.pc = "stopping"]
                  ELSE [tl EXCEPT !.current_time = tl.age, !.pc = "apply"]
    /\ ev' = Event("tl_advance", "", NoAngle, "", TRUE, {}, tl.age)
    /\ UNCHANGED <<servos, drv, idle, OtherVars>>

\* _transport_worker: `self.stop(); continue`
TlEnd ==
    /\ tl.pc = "stopping"
    /\ tl' = [tl EXCEPT !.state = "stopped", !.current_time = 0, !.pc = "check"]
    /\ ev' = Event("tl_end", "", NoAngle, "", TRUE, {}, -1)
    /\ UNCHANGED <<servos, drv, idle, OtherVars>>

\* _transport_worker: _update_servo_positions(self.current_time_ms), then the sleep
\* begins; the event keeps the time applied as gap
TlApply(hw) ==
    LET v == IF tl.track THEN InterpolateTrackValue(tl.kf, tl.current_time) ELSE NoAngle
        s == resolve_servo(servos, "a")
        req == [t \in ServoIds |->
                   IF v # NoAngle /\ t = s /\ servos[t].enabled THEN v ELSE NoAngle]
        att == Addressed(servos, req)
    IN /\ tl.pc = "apply"
       /\ servos' = StoreAll(servos, req, att)
       /\ drv' = DriveAll(servos, drv, req, att, hw)
       /\ tl' = [tl EXCEPT !.pc = "sleep", !.slept = FALSE]
       /\ ev' = Event("tl_apply", s, v, tl.state, TRUE,
                      PulsesOf(servos, req, Accepted(servos, drv, req, hw)),
                      tl.current_time)
       /\ UNCHANGED <<idle, OtherVars>>

\* _interpolate_track_value(track, time_ms) for the track, as a render calls it
InterpolateAt(time) ==
    /\ tl.timeline /\ tl.track
    /\ ev' = Event("tl_value", "a", InterpolateTrackValue(tl.kf, time), "", TRUE, {}, time)
    /\ UNCHANGED <<tl, servos, drv, idle, OtherVars>>

\* _update_servo_positions, the loop over timeline.tracks from track i on: g the
\* tracks, sv and d the registry and the driver so far, w the pulses put out
RECURSIVE RenderFrom(_, _, _, _, _, _)
RenderFrom(g, i, sv, d, w, hw) ==
    IF i > Len(g) THEN [servos |-> sv, drv |-> d, writes |-> w]
    ELSE LET solo_tracks == {j \in 1..Len(g) : g[j].solo /\ g[j].enabled}
             skip == \/ ~g[i].enabled \/ g[i].muted
                     \/ solo_tracks # {} /\ ~g[i].solo
             s == resolve_servo(sv, "a")
             req == [t \in ServoIds |->
                        IF ~skip /\ t = s /\ sv[t].enabled THEN g[i].value ELSE NoAngle]
             att == Addressed(sv, req)
         IN RenderFrom(g, i + 1, StoreAll(sv, req, att), DriveAll(sv, d, req, att, hw),
                       w \cup PulsesOf(sv, req, Accepted(sv, d, req, hw)), hw)

\* _update_servo_positions for the timeline of the flagged tracks
RenderFlagged(hw) ==
    LET r == RenderFrom(tl.flagged, 1, servos, drv, {}, hw) IN
    /\ tl.timeline
    /\ servos' = r.servos
    /\ drv' = r.drv
    /\ ev' = Event("tl_render", "a", NoAngle, "", TRUE, r.writes, -1)
    /\ UNCHANGED <<tl, idle, OtherVars>>

\* scrub(time_ms): current_time_ms is set, and the servos are moved to it when
\* the transport is not Playing; the event keeps the value rendered as angle and
\* time_ms as gap
Scrub(time, hw) ==
    LET pos == Max2(0, Min2(TlDuration, time))
        render == tl.timeline /\ tl.state # "playing"
        v == IF render /\ tl.track THEN InterpolateTrackValue(tl.kf, pos) ELSE NoAngle
        s == resolve_servo(servos, "a")
        req == [t \in ServoIds |->
                   IF v # NoAngle /\ t = s /\ servos[t].enabled THEN v ELSE NoAngle]
        att == Addressed(servos, req)
    IN /\ tl' = IF tl.timeline THEN [tl EXCEPT !.current_time = pos] ELSE tl
       /\ servos' = StoreAll(servos, req, att)
       /\ drv' = DriveAll(servos, drv, req, att, hw)
       /\ ev' = Event("tl_scrub", s, v, tl.state, tl.timeline,
                      PulsesOf(servos, req, Accepted(servos, drv, req, hw)), time)
       /\ UNCHANGED <<idle, OtherVars>>

\* _transport_worker: time.sleep(self.update_interval) returns
TlWake ==
    /\ tl.pc = "sleep" /\ tl.slept
    /\ tl' = [tl EXCEPT !.pc = "check", !.slept = FALSE]
    /\ ev' = Event("tl_wake", "", NoAngle, "", TRUE, {}, -1)
    /\ UNCHANGED <<servos, drv, idle, OtherVars>>

\* One update_interval (1/60 s) passes
Frame ==
    /\ tl' = [tl EXCEPT !.age = Min2(@ + 1, MaxTlAge),
                        !.rec_age = Min2(@ + 1, MaxTlAge),
                        !.slept = IF tl.pc = "sleep" THEN TRUE ELSE @]
    /\ ev' = Event("frame", "", NoAngle, "", TRUE, {}, -1)
    /\ UNCHANGED <<servos, drv, idle, OtherVars>>

(* ------------------------------- Next --------------------------------- *)

\* The handlers an operator reaches over HTTP and the socket
Command ==
    \/ \E r \in RegisterInputs, pets \in BOOLEAN : Register(r[1], r[2], r[3], pets)
    \/ \E l \in LimitInputs : SetSoftLimits(l[1], <<l[2], l[3]>>)
    \/ \E i \in Identifiers, a \in CmdAngles, hw \in HwOne : SetAngle(i, a, hw)
    \/ \E i \in Identifiers, hw \in HwOne : EnableServo(i, hw)
    \/ \E i \in Identifiers, hw \in HwOne : DisableServo(i, hw)
    \/ \E p \in PoseInputs, hw \in HwOutcomes : GoSafePose(p, hw)
    \/ \E m \in EmergencyModes, hw \in HwOutcomes : EmergencyStop(m, hw)
    \/ ResetSafetyState
    \/ \E hw \in HwOutcomes : Preflight(hw, hw)

Next ==
    \/ Command

Spec == Init /\ [][Next]_vars

\* The watchdog: its API, its worker thread and the passing of time, beside the
\* commands that pet it or change the safety state
WdNext ==
    \/ \E t \in Timeouts : WatchdogStart(t)
    \/ WatchdogStop
    \/ Status
    \/ WdLoop
    \/ \E hw \in HwOne : WdWake(hw)
    \/ WdExit
    \/ Tick
    \/ \E a \in CmdAngles, hw \in HwOne : SetAngle("a", a, hw)
    \/ \E m \in EmergencyModes, hw \in HwOne : EmergencyStop(m, hw)
    \/ ResetSafetyState

WdSpec == Init /\ [][WdNext]_vars

\* The worker thread is scheduled and time passes
WdFairness ==
    /\ WF_vars(WdLoop)
    /\ WF_vars(\E hw \in HwOne : WdWake(hw))
    /\ WF_vars(WdExit)
    /\ WF_vars(Tick)

WdFairSpec == Init /\ [][WdNext]_vars /\ WdFairness

\* The watchdog with timeout callbacks that may raise
WdRaiseNext ==
    \/ \E t \in Timeouts : WatchdogStart(t)
    \/ WatchdogStop
    \/ WdLoop
    \/ \E hw \in HwOne : WdWake(hw)
    \/ WdWakeRaising
    \/ WdExit
    \/ Tick
    \/ \E hw \in HwOne : SetAngle("a", 30, hw)
    \/ ResetSafetyState

WdRaiseSpec == Init /\ [][WdRaiseNext]_vars

\* The threads that pet the watchdog: a request handler, a socket handler
Petters == {"request", "socket"}

\* The watchdog with timeout callbacks that may pet it, petted by other threads
LockNext ==
    \/ \E t \in Timeouts : WatchdogStart(t)
    \/ WatchdogStop
    \/ WdLoop
    \/ \E hw \in HwOne : WdWake(hw)
    \/ WdWakePetting
    \/ WdExit
    \/ Tick
    \/ \E t \in Petters : WatchdogPet(t)

LockSpec == Init /\ [][LockNext]_vars

\* The worker thread is scheduled and time passes
LockFairness ==
    /\ WF_vars(WdLoop)
    /\ WF_vars((\E hw \in HwOne : WdWake(hw)) \/ WdWakePetting)
    /\ WF_vars(WdExit)
    /\ WF_vars(Tick)

LockFairSpec == Init /\ [][LockNext]_vars /\ LockFairness

\* The registry: its API, beside the command that drives a servo
RegistryNext ==
    \/ \E r \in RegisterInputs : Register(r[1], r[2], r[3], FALSE)
    \/ \E r \in RenameInputs : RenameServo(r[1], r[2])
    \/ \E i \in ServoIds, x \in AliasNames : AliasServo(i, x)
    \/ \E i \in ResolveInputs : GetServoId(i)
    \/ \E c \in CalibInputs : CalibrateServo(c[1], c[2], c[3])
    \/ \E hw \in HwOne : SetAngle("a", 30, hw)

RegistrySpec == Init /\ [][RegistryNext]_vars

\* The preset engine: its API and its update thread, beside the commands that
\* enable servos or change the safety state
EngineNext ==
    \/ \E n \in PresetNames, ts \in TargetInputs : PresetPlay(n, ts, DefaultRate, TRUE, TRUE)
    \/ \E n \in PresetNames : PresetStop(n)
    \/ \E n \in PresetNames : PresetPause(n)
    \/ \E n \in PresetNames : PresetResume(n)
    \/ \E n \in PresetNames, g \in GenAngles, hw \in HwOne : PresetTick(n, g, hw)
    \/ \E i \in Identifiers, hw \in HwOne : EnableServo(i, hw)
    \/ \E i \in Identifiers, hw \in HwOne : DisableServo(i, hw)
    \/ \E m \in EmergencyModes, hw \in HwOne : EmergencyStop(m, hw)
    \/ ResetSafetyState

EngineSpec == Init /\ [][EngineNext]_vars

\* The rate argument of preset_play, in tenths: the default and two others
PresetRates == {NodRate, DefaultRate, 20}

\* PresetInstance.params: the instance keeps the PresetParams object of the
\* definition it was created from, not a copy
InstanceParams(defs, name) == defs[name]

\* The preset engine played at various rates, looping or not
RatedNext ==
    \/ \E n \in PresetNames, ts \in TargetInputs, r \in PresetRates, l \in BOOLEAN :
          PresetPlay(n, ts, r, l, FALSE)
    \/ \E n \in PresetNames : PresetStop(n)
    \/ \E n \in PresetNames : PresetPause(n)
    \/ \E n \in PresetNames : PresetResume(n)
    \/ \E n \in PresetNames, g \in GenAngles, hw \in HwOne : PresetTick(n, g, hw)

RatedSpec == Init /\ [][RatedNext]_vars

\* Preflight over registries with various soft limits; the test writes and the
\* return to center fail independently
PreflightNext ==
    \/ \E r \in RegisterInputs : Register(r[1], r[2], r[3], FALSE)
    \/ \E l \in PreflightLimits : SetSoftLimits(l[1], <<l[2], l[3]>>)
    \/ \E i \in ServoIds, hw \in HwOne : DisableServo(i, hw)
    \/ \E i \in ServoIds, hw \in HwOne : EnableServo(i, hw)
    \/ \E hw \in HwOne, hwc \in HwOne : Preflight(hw, hwc)

PreflightSpec == Init /\ [][PreflightNext]_vars

\* clamp_angle applied to the angles of ClampAngles and to its own last result,
\* for servos with various soft limits and for names that resolve to no servo
ClampNext ==
    \/ \E r \in RegisterInputs : Register(r[1], r[2], r[3], FALSE)
    \/ \E l \in PreflightLimits : SetSoftLimits(l[1], <<l[2], l[3]>>)
    \/ \E i \in Identifiers \cup {"0"}, a \in ClampAngles : ClampAngle(i, a)
    \/ \E i \in Identifiers \cup {"0"} : ClampAgain(i)

ClampSpec == Init /\ [][ClampNext]_vars

\* The driver's callers, one ServoController call at a time
DriverNext ==
    \/ \E n \in PresetNames, ts \in TargetInputs : PresetPlay(n, ts, DefaultRate, TRUE, FALSE)
    \/ \E n \in PresetNames : PresetStop(n)
    \/ \E t \in Threads, i \in ServoIds, a \in CmdAngles \cup GenAngles : DrvBegin(t, i, a)
    \/ \E t \in Threads, hw \in HwOne : DrvEnd(t, hw)

DriverSpec == Init /\ [][DriverNext]_vars

\* simplify_track applied, again and again, to the tracks of AuthoredTracks
SimplifyNext ==
    \E tol \in Tolerances : SimplifyTrack(tol)

SimplifySpec == SimplifyInit /\ [][SimplifyNext]_vars

\* Authoring a track while it is recorded into: two handler threads, one of
\* them followed inside bisect.insort, and the transport thread
AuthorNext ==
    \/ \E k \in AuthorKeys : KeyframeAdd(k[1], k[2])
    \/ \E k \in PreemptedKeys : KeyframeFind(k[1], k[2])
    \/ KeyframePut
    \/ \E tol \in Tolerances : SimplifyTrack(tol)
    \/ RecordLiveStart
    \/ RecordLiveStop
    \/ RecordTick
    \/ TlCheck
    \/ TlWake
    \/ Frame

AuthorSpec == AuthorInit /\ [][AuthorNext]_vars

\* The transport commands and the clock, for the position that start_time and
\* playback_speed stand for
SpeedNext ==
    \/ TimelineNew
    \/ TlPlay(FALSE)
    \/ TlPause
    \/ TlStop(FALSE)
    \/ \E r \in Rates : SetSpeed(r)
    \/ Frame

SpeedSpec == Init /\ [][SpeedNext]_vars

\* Looping playback with the loop ranges loop_set takes
LoopNext ==
    \/ TimelineNew
    \/ TlPlay(FALSE)
    \/ \E en \in BOOLEAN, r \in LoopRanges : LoopSetRange(en, r[1], r[2])
    \/ TlCheck
    \/ TlAdvance
    \/ TlEnd
    \/ \E hw \in HwOne : TlApply(hw)
    \/ TlWake
    \/ Frame

LoopSpec == Init /\ [][LoopNext]_vars

\* Scrubbing in every transport state, and the playback that follows
ScrubNext ==
    \/ TlPlay(FALSE)
    \/ TlPause
    \/ TlStop(FALSE)
    \/ \E t \in ScrubTimes, hw \in HwOne : Scrub(t, hw)
    \/ TlCheck
    \/ TlAdvance
    \/ TlEnd
    \/ \E hw \in HwOne : TlApply(hw)
    \/ TlWake
    \/ Frame

ScrubSpec == ScrubInit /\ [][ScrubNext]_vars

\* _interpolate_track_value sampled on the tracks of EasedTracks
EasedNext ==
    \E t \in SampleTimes : InterpolateAt(t)

EasedSpec == EasedInit /\ [][EasedNext]_vars

\* Renders of a timeline whose tracks have any flags, for servos enabled or not
FlaggedNext ==
    \/ \E hw \in HwOne : RenderFlagged(hw)
    \/ \E i \in ServoIds, hw \in HwOne : EnableServo(i, hw)
    \/ \E i \in ServoIds, hw \in HwOne : DisableServo(i, hw)

FlaggedSpec == FlaggedInit /\ [][FlaggedNext]_vars

\* Live recording, before or after a playback, on a timeline with or without
\* a track of the operator's
RecordNext ==
    \/ TimelineNew
    \/ TrackAdd
    \/ RecordLiveStart
    \/ RecordLiveStop
    \/ RecordTick
    \/ TlPlay(FALSE)
    \/ TlStop(FALSE)
    \/ TlCheck
    \/ TlAdvance
    \/ TlEnd
    \/ \E hw \in HwOne : TlApply(hw)
    \/ TlWake
    \/ Frame

RecordSpec == Init /\ [][RecordNext]_vars

\* The transport thread, once started, is kept running, and time passes
RecordFairness ==
    /\ WF_vars(TlCheck)
    /\ WF_vars(TlAdvance)
    /\ WF_vars(TlEnd)
    /\ WF_vars(\E hw \in HwOne : TlApply(hw))
    /\ WF_vars(TlWake)
    /\ WF_vars(RecordTick)
    /\ WF_vars(Frame)

RecordFairSpec == Init /\ [][RecordNext]_vars /\ RecordFairness

\* The timeline engine: authoring, transport commands and the transport thread
TimelineNext ==
    \/ TimelineNew
    \/ TrackAdd
    \/ \E k \in KeyframeInputs : KeyframeAdd(k[1], k[2])
    \/ TlPlay(FALSE)
    \/ TlStop(FALSE)
    \/ \E en \in BOOLEAN : LoopSet(en)
    \/ TlCheck
    \/ TlAdvance
    \/ TlEnd
    \/ \E hw \in HwOne : TlApply(hw)
    \/ TlWake
    \/ Frame

TimelineSpec == Init /\ [][TimelineNext]_vars

\* The transport thread is a daemon thread that the scheduler keeps running,
\* and time passes
TimelineFairness ==
    /\ WF_vars(TlCheck)
    /\ WF_vars(TlAdvance)
    /\ WF_vars(TlEnd)
    /\ WF_vars(\E hw \in HwOne : TlApply(hw))
    /\ WF_vars(TlWake)
    /\ WF_vars(Frame)

TimelineFairSpec == Init /\ [][TimelineNext]_vars /\ TimelineFairness

(* ------------------------------- claims ------------------------------- *)

\* The servo a pulse on channel c drives
ServoOn(c) == {s \in Registered(servos) : servos[s].channel = c}

\* C1: after a successful set_angle(s, a) the stored current_angle and
\* target_angle equal a limited to [min_deg, max_deg], without orientation, and
\* the one angle handed to the driver, on s.channel, is that value, turned to
\* 180 minus it for an inverted or mirrored servo.
C1_SetAngleStoresClampedDrivesOriented ==
    (ev.op = "set_angle" /\ ev.ok) =>
        LET m == servos[ev.id]
            c == IF ev.angle < m.min_deg THEN m.min_deg
                 ELSE IF ev.angle > m.max_deg THEN m.max_deg ELSE ev.angle
            o == IF m.orientation \in {"inverted", "mirrored"} THEN 180 - c ELSE c
        IN /\ m.current_angle = c
           /\ m.target_angle = c
           /\ ev.writes = {<<m.channel, o>>}
           /\ drv[m.channel].angle = o

\* C1 witness: limits [60,120] on an inverted servo, a = 200: 120 is stored and
\* 60 reaches the driver
C1_Witness ==
    /\ ev.op = "set_angle" /\ ev.ok /\ ev.angle = 200
    /\ servos[ev.id].orientation = "inverted"
    /\ servos[ev.id].min_deg = 60 /\ servos[ev.id].max_deg = 120
    /\ servos[ev.id].current_angle = 120
    /\ ev.writes = {<<servos[ev.id].channel, 60>>}

\* C2: no operation writes a pulse to the channel of a servo whose enabled flag
\* is false (the servo that enable itself switches on excepted).
C2_NoPulseWhileDisabled ==
    ev.op # "enable" =>
        \A w \in ev.writes : \A s \in ServoOn(w[1]) : servos[s].enabled

\* C3: in every reachable state every registered servo has
\* min_deg <= current_angle <= max_deg and min_deg <= target_angle <= max_deg.
C3_AnglesWithinSoftLimits ==
    \A s \in Registered(servos) :
        /\ servos[s].min_deg <= servos[s].current_angle
        /\ servos[s].current_angle <= servos[s].max_deg
        /\ servos[s].min_deg <= servos[s].target_angle
        /\ servos[s].target_angle <= servos[s].max_deg

\* C4: while the safety state is Emergency or Fault no set_angle command and no
\* preset-engine tick writes an angle to the driver.
C4_NoCommandWriteInEmergency ==
    (ev.op \in {"set_angle", "preset_tick"} /\ current_state \in {"emergency", "fault"})
        => ev.writes = {}

\* C9: after emergency_stop(Detach) the safety state is Emergency and no
\* registered servo is left with enabled = true.
C9_DetachDisablesEveryServo ==
    (ev.op = "emergency_stop" /\ ev.mode = "detach") =>
        /\ current_state = "emergency"
        /\ \A s \in Registered(servos) : ~servos[s].enabled

\* C5: whenever the watchdog is enabled and has not been petted for longer than
\* the timeout, the timeout handler is eventually invoked and the safety state
\* becomes Fault (unless, before that, it is petted or stopped).
C5_UnpettedWatchdogFires ==
    (watchdog_enabled /\ idle > watchdog_timeout)
        ~> \/ (ev.op = "wd_fire" /\ current_state = "fault")
           \/ ~watchdog_enabled
           \/ idle <= watchdog_timeout

\* C6: a handler invocation that follows another one comes more than the
\* timeout T after it.
C6_ConsecutiveFiringsMoreThanTimeoutApart ==
    (ev.op = "wd_fire" /\ ev.gap # -1) => ev.gap > watchdog_timeout

\* C6 witness: the handler fires a second time, T + 1 samples after the first
C6_Witness ==
    /\ ev.op = "wd_fire"
    /\ ev.gap = watchdog_timeout + 1
    /\ current_state = "fault"

\* C7: the timeout handler is never invoked while the watchdog is stopped, that
\* is after watchdog_stop() returned and before the next watchdog_start().
C7_NoFiringWhileStopped ==
    ev.op = "wd_fire" => watchdog_enabled

\* C8: no operation other than reset lowers the severity of the safety state,
\* and reset returns it to Normal from Emergency or Fault only: from Normal or
\* Warning it fails and leaves the state unchanged.
C8_SeverityMonotonicButForReset ==
    [][IF ev'.op = "reset"
       THEN IF current_state \in {"emergency", "fault"}
            THEN current_state' = "normal" /\ ev'.ok
            ELSE current_state' = current_state /\ ~ev'.ok
       ELSE Severity(current_state') >= Severity(current_state)]_vars

\* C10: emergency_stop(Hold) sets the safety state to Emergency and changes
\* nothing else: no driver write, every servo's angles and enabled flag
\* unchanged, the watchdog not petted.
C10_HoldOnlySetsEmergency ==
    [][(ev'.op = "emergency_stop" /\ ev'.mode = "hold") =>
          /\ current_state' = "emergency"
          /\ ev'.writes = {}
          /\ servos' = servos
          /\ drv' = drv
          /\ idle' = idle
          /\ UNCHANGED <<in_driver, safe_poses, watchdog_enabled, watchdog_timeout, since_fire,
                         wd_pc, preset, preset_thread, preset_definitions, watchdog_lock>>]_vars

\* C10 witness: Hold taken with a servo away from its park angle and the
\* watchdog unpetted for a while
C10_Witness ==
    /\ ev.op = "emergency_stop" /\ ev.mode = "hold"
    /\ current_state = "emergency"
    /\ idle > 0
    /\ \E s \in Registered(servos) : servos[s].current_angle # DefaultAngle

\* C11: in every reachable state the park pose lists exactly the registered
\* servos, each at 90 degrees.
C11_ParkListsEveryServoAt90 ==
    \A s \in ServoIds :
        safe_poses["park"][s] = IF s \in Registered(servos) THEN 90 ELSE NoAngle

\* C12: a tick of the preset update worker writes no angle to the driver for an
\* instance that is paused.
C12_PausedInstanceWritesNothing ==
    (ev.op = "preset_tick" /\ preset[ev.mode].running /\ preset[ev.mode].paused)
        => ev.writes = {}

\* C17: set_soft_limits rejects the call and leaves the registry unchanged when
\* min_deg >= max_deg or a bound is outside [0,180], and every servo always
\* has 0 <= min_deg < max_deg <= 180.
C17_SoftLimitsValidated ==
    [][/\ (ev'.op = "set_soft_limits" /\
             (ev'.angle >= ev'.gap \/ ev'.angle < 0 \/ ev'.gap > 180))
             => (~ev'.ok /\ servos' = servos)
       /\ \A s \in ServoIds :
             servos'[s].channel # NoChannel =>
                 /\ 0 <= servos'[s].min_deg
                 /\ servos'[s].min_deg < servos'[s].max_deg
                 /\ servos'[s].max_deg <= 180]_vars

\* C17 witness: limits (120, 60) were refused for a servo that keeps [60,120]
C17_Witness ==
    /\ ev.op = "set_soft_limits" /\ ~ev.ok
    /\ ev.id = "a" /\ ev.angle = 120 /\ ev.gap = 60
    /\ servos["a"].min_deg = 60 /\ servos["a"].max_deg = 120

\* C13: resolve tries the ID table, then the alias table, then the channel in
\* decimal, and returns the first hit; a string matching none yields none.
C13_ResolvePrecedence ==
    ev.op = "resolve" =>
        LET x == ev.mode
            isId == x \in ServoIds /\ servos[x].channel # NoChannel
            isAlias == x \in AliasNames /\ alias_map[x] # ""
            ch == IF x = "0" THEN 0 ELSE IF x = "1" THEN 1 ELSE NoChannel
            onCh == {t \in ServoIds : ch # NoChannel /\ servos[t].channel = ch}
        IN /\ isId => ev.id = x
           /\ (~isId /\ isAlias) => ev.id = alias_map[x]
           /\ (~isId /\ ~isAlias /\ onCh # {}) => ev.id \in onCh
           /\ (~isId /\ ~isAlias /\ onCh = {}) => (ev.id = "" /\ ~ev.ok)

\* C13 witness: "1" is an alias of the servo on channel 0 while another servo
\* sits on channel 1, and "1" resolved to the alias's servo
C13_Witness ==
    /\ ev.op = "resolve" /\ ev.mode = "1" /\ ev.id = "a"
    /\ alias_map["1"] = "a"
    /\ servos["a"].channel = 0 /\ servos["b"].channel = 1

\* C14: each string resolves in at most one way: it is not at once an ID and
\* an alias, an ID and a channel in decimal, or an alias and a channel in
\* decimal.
C14_ResolutionsDisjoint ==
    \A x \in ResolveInputs :
        LET isId == x \in Registered(servos)
            isAlias == AliasTaken(alias_map, x)
            isChannel == ChannelTaken(channel_map, DecimalOf(x))
        IN ~(isId /\ isAlias) /\ ~(isId /\ isChannel) /\ ~(isAlias /\ isChannel)

\* channel_map is exactly the inverse of the servos' channel fields, all in range
ChannelIndexOk(sv, cm) ==
    /\ \A t \in ServoIds : sv[t].channel # NoChannel =>
           /\ 0 <= sv[t].channel /\ sv[t].channel <= 15
           /\ sv[t].channel \in DOMAIN cm /\ cm[sv[t].channel] = t
    /\ \A c \in DOMAIN cm : cm[c] # "" =>
           (cm[c] \in ServoIds /\ sv[cm[c]].channel = c)
    /\ \A t, u \in ServoIds :
           (t # u /\ sv[t].channel # NoChannel) => sv[t].channel # sv[u].channel

\* C15: after every step every servo has a channel in [0,15], no two servos
\* share one, the channel map holds exactly one entry per servo, pointing at
\* its current ID, and a rejected register leaves the registry unchanged.
C15_ChannelIndexBijective ==
    [][/\ ChannelIndexOk(servos', channel_map')
       /\ (ev'.op = "register" /\ ~ev'.ok) =>
              (servos' = servos /\ channel_map' = channel_map /\ alias_map' = alias_map)]_vars

\* C15 witness: a register was rejected while both channels are assigned
C15_Witness ==
    /\ ev.op = "register" /\ ~ev.ok
    /\ channel_map[0] = "a" /\ channel_map[1] = "b"

\* The id a string resolves to in the registry (sv, am, cm), "" for none
ResolveIn(sv, am, cm, x) ==
    IF x \in ServoIds /\ sv[x].channel # NoChannel THEN x
    ELSE IF x \in DOMAIN am /\ am[x] # "" THEN am[x]
    ELSE IF x = "0" /\ cm[0] # "" THEN cm[0]
    ELSE IF x = "1" /\ cm[1] # "" THEN cm[1]
    ELSE ""

\* C16: rename(old, new) fails with no change when old is no servo ID or new is
\* one already; on success new resolves to the servo, old is no ID any more,
\* every alias and channel decimal that resolved to the servo still does, and
\* the servo's record (channel, limits, calibration, angles) is unchanged.
C16_RenameKeepsBackReferences ==
    [][ev'.op = "rename" =>
          LET old == ev'.id
              new == ev'.mode
          IN IF old \notin Registered(servos) \/ new \in Registered(servos)
             THEN /\ ~ev'.ok
                  /\ servos' = servos /\ channel_map' = channel_map
                  /\ alias_map' = alias_map
             ELSE /\ ev'.ok
                  /\ servos'[new] = servos[old]
                  /\ servos'[old].channel = NoChannel
                  /\ ResolveIn(servos', alias_map', channel_map', new) = new
                  /\ \A x \in AliasNames \cup {"0", "1"} :
                        (x \notin Registered(servos) /\
                         ResolveIn(servos, alias_map, channel_map, x) = old)
                            => ResolveIn(servos', alias_map', channel_map', x) = new]_vars

\* C16 witness: a calibrated servo with the alias "x" was renamed from a to b
C16_Witness ==
    /\ ev.op = "rename" /\ ev.ok /\ ev.id = "a" /\ ev.mode = "b"
    /\ alias_map["x"] = "b"
    /\ channel_map[0] = "b"
    /\ servos["b"].min_pulse_us = 1000

\* C18: a successful write for a servo uses the pulse range of the servo's
\* registry calibration: the driver's (min_pulse, max_pulse) of the channel
\* equal the servo's (min_pulse_us, max_pulse_us).
C18_DriverUsesRegistryCalibration ==
    (ev.op = "set_angle" /\ ev.ok) =>
        /\ drv[servos[ev.id].channel].min_pulse = servos[ev.id].min_pulse_us
        /\ drv[servos[ev.id].channel].max_pulse = servos[ev.id].max_pulse_us

\* C19: while the timeline state is Stopped (since the last stop no play was
\* issued) current_time_ms is 0 and the transport writes no servo position.
C19_StoppedPlayheadStaysAtZero ==
    tl.state = "stopped" =>
        /\ tl.current_time = 0
        /\ ~(ev.op = "tl_apply" /\ ev.writes # {})

\* C20: a transport that is Playing a timeline that does not loop, with no
\* further command to come, eventually is Stopped with current_time_ms = 0.
C20_PlaybackTerminates ==
    (tl.state = "playing" /\ ~tl.loop /\ tl.cmds = MaxCommands)
        ~> (tl.state = "stopped" /\ tl.current_time = 0)

\* C20 witness: after the last command the transport thread reached the end of
\* the timeline and stopped the playback
C20_Witness ==
    /\ ev.op = "tl_end" /\ tl.cmds = MaxCommands /\ ~tl.loop
    /\ tl.state = "stopped" /\ tl.current_time = 0

\* C24: a preflight records exactly three per-angle results for every
\* registered servo, 3 N in all, whatever the soft limits.
C24_PreflightThreeTestsPerServo ==
    ev.op = "preflight" => ev.gap = 3 * Cardinality(Registered(servos))

\* C25: overall_status is fail iff a per-angle write failed, warning iff none
\* failed but a return-to-center write did not succeed, and pass otherwise.
\* (ev.ok: every return-to-center write succeeded; a servo whose test write
\* succeeded has its three test pulses in ev.writes.)
C25_PreflightStatusReflectsWrites ==
    ev.op = "preflight" =>
        LET testFailed ==
                \E s \in Registered(servos) :
                    <<servos[s].channel,
                      Max2(0, Min2(180, apply_orientation(servos[s],
                                                          servos[s].min_deg + 5)))>>
                        \notin ev.writes
        IN /\ (ev.mode = "fail") <=> testFailed
           /\ (ev.mode = "warning") <=> (~testFailed /\ ~ev.ok)
           /\ (ev.mode = "pass") <=> (~testFailed /\ ev.ok)

\* C29: every angle a preflight hands to the driver for a servo is
\* apply_orientation of an angle within the servo's [min_deg, max_deg].
C29_PreflightWritesWithinLimits ==
    ev.op = "preflight" =>
        \A w \in ev.writes :
            \E s \in Registered(servos) :
                /\ servos[s].channel = w[1]
                /\ \E x \in servos[s].min_deg .. servos[s].max_deg :
                       w[2] = apply_orientation(servos[s], x)

\* C30: after preset_stop(name) the instance is not among the running
\* instances; a tick that starts while it is not running writes no angle for it
\* and changes no servo; preset_stop(name) on a preset that is not running
\* returns False and changes nothing.
C30_StopConsumedAndIdempotent ==
    [][/\ ev'.op = "preset_stop" =>
              /\ ~preset'[ev'.mode].running
              /\ preset'[ev'.mode].targets = {}
              /\ ev'.ok = preset[ev'.mode].running
              /\ ~preset[ev'.mode].running => preset' = preset
              /\ servos' = servos /\ drv' = drv /\ preset_thread' = preset_thread
       /\ (ev'.op = "preset_tick" /\ ~preset[ev'.mode].running) =>
              /\ ev'.writes = {}
              /\ servos' = servos /\ drv' = drv]_vars

\* C30 witness: a tick ran after the preset, which had driven servo a, was
\* stopped
C30_Witness ==
    /\ ev.op = "preset_tick" /\ ev.writes = {}
    /\ preset_thread /\ ~preset["nod"].running
    /\ servos["a"].enabled /\ servos["a"].current_angle \in GenAngles
    /\ drv[servos["a"].channel].active

\* C27: clamp_angle returns max(min_deg, min(max_deg, a)) for a servo that
\* resolves and a itself otherwise, and clamping its own result for the same
\* identifier returns that result again.
C27_ClampIdempotent ==
    [][ev'.op = "clamp" =>
          /\ LET lo == servos[ev'.id].min_deg
                 hi == servos[ev'.id].max_deg
                 a == ev'.gap
             IN IF ev'.id = "" THEN ev'.angle = a
                ELSE ev'.angle = (IF (IF hi <= a THEN hi ELSE a) >= lo
                                  THEN (IF hi <= a THEN hi ELSE a) ELSE lo)
          /\ (ev.op = "clamp" /\ ev'.mode = ev.mode /\ ev'.gap = ev.angle)
                => ev'.angle = ev.angle]_vars

\* C27 witness: 63, the result of clamping to the limits [60, 63], was clamped
\* again
C27_Witness ==
    /\ ev.op = "clamp" /\ ev.id = "a" /\ ev.gap = 63 /\ ev.angle = 63
    /\ servos["a"].min_deg = 60 /\ servos["a"].max_deg = 63

\* C28: when the timeout handler or a Fault callback raises on a watchdog
\* timeout, the state still becomes Fault, last_activity is still reset, and
\* the worker is still running, at the top of its loop.
C28_RaisingCallbackDoesNotKillWatchdog ==
    [][(ev'.op = "wd_fire" /\ ev'.mode = "raised") =>
          /\ current_state' = "fault"
          /\ idle' = 0
          /\ wd_pc' = "loop"
          /\ watchdog_enabled' = watchdog_enabled]_vars

\* C28 witness: a firing whose callback raised, more than one timeout after the
\* firing before it, left the worker at the top of its loop
C28_Witness ==
    /\ ev.op = "wd_fire" /\ ev.mode = "raised"
    /\ ev.gap > watchdog_timeout
    /\ current_state = "fault" /\ wd_pc = "loop"

\* C26: at no time are two threads inside a driver call.
C26_DriverCallsExclusive ==
    Cardinality({t \in Threads : in_driver[t] # NoCall}) <= 1

\* C23: simplify_track of a track of three keyframes or more returns, keeps the
\* first and the last keyframe, returns the number of keyframes it removed, and
\* leaves a subsequence of the track in which every removed keyframe's value is
\* within the tolerance of the line between the kept keyframes on either side of
\* it, taken at the removed keyframe's time.
C23_SimplifyRoundTrip ==
    [][(ev'.op = "tl_simplify" /\ Len(tl.kf) >= 3) =>
          LET old == tl.kf
              new == tl'.kf
              tol == ev'.angle
          IN /\ ev'.ok
             /\ Len(new) >= 2
             /\ new[1] = old[1]
             /\ new[Len(new)] = old[Len(old)]
             /\ ev'.gap = Len(old) - Len(new)
             /\ \E f \in [1..Len(new) -> 1..Len(old)] :
                   /\ f[1] = 1
                   /\ f[Len(new)] = Len(old)
                   /\ \A j \in 1..(Len(new) - 1) : f[j] < f[j + 1]
                   /\ \A j \in 1..Len(new) : new[j] = old[f[j]]
                   /\ \A j \in 1..(Len(new) - 1) :
                         \A i \in (f[j] + 1)..(f[j + 1] - 1) :
                            LET span == new[j + 1].time - new[j].time
                                d == (old[i].value - new[j].value) * span
                                       - (new[j + 1].value - new[j].value)
                                           * (old[i].time - new[j].time)
                            IN d <= tol * span /\ -d <= tol * span]_vars

\* C22: whatever keyframe_add calls, record ticks and simplify_track calls have
\* run or are under way, the track's keyframes are in non-decreasing time order,
\* and a keyframe_add that has returned has put its keyframe after every
\* keyframe with the same or an earlier time and before every later one.
C22_KeyframesSorted ==
    [][/\ \A i \in 1..(Len(tl'.kf) - 1) : tl'.kf[i].time <= tl'.kf[i + 1].time
       /\ (ev'.op \in {"tl_keyframe", "tl_put"} /\ ev'.ok) =>
              \E n \in 0..Len(tl.kf) :
                 /\ tl'.kf = SubSeq(tl.kf, 1, n)
                               \o <<[time |-> ev'.gap, value |-> ev'.angle]>>
                               \o SubSeq(tl.kf, n + 1, Len(tl.kf))
                 /\ \A i \in 1..n : tl.kf[i].time <= ev'.gap
                 /\ \A i \in (n + 1)..Len(tl.kf) : tl.kf[i].time > ev'.gap]_vars

\* C21: set_speed(rate) with rate > 0 leaves the position where it was: while
\* Playing, (now - start_time) * playback_speed is the same after the call as
\* before it; while Paused, so is the position a resume continues from,
\* (pause_time - start_time) * playback_speed.  set_speed(rate) with rate <= 0
\* returns False and changes nothing.
C21_SetSpeedKeepsPosition ==
    [][ev'.op = "tl_speed" =>
          /\ ev'.ok = (ev'.gap > 0)
          /\ ev'.gap <= 0 => tl' = tl
          /\ (ev'.gap > 0 /\ tl.state = "playing") =>
                 tl'.age * tl'.speed = tl.age * tl.speed
          /\ (ev'.gap > 0 /\ tl.state = "paused") =>
                 tl'.pause_age * tl'.speed = tl.pause_age * tl.speed]_vars

\* C31: preset_resume(name) on an instance that is not paused, running or not,
\* returns False and leaves the instance as it was.
C31_ResumeNotPausedRejected ==
    [][(ev'.op = "preset_resume" /\ ~(preset[ev'.mode].running /\ preset[ev'.mode].paused))
          => (~ev'.ok /\ preset' = preset)]_vars

\* C32: on every Playing tick of a looping timeline the loop range is within
\* the timeline, 0 <= loop_start_ms < loop_end_ms <= duration_ms, and the tick
\* leaves current_time_ms below loop_end_ms.
C32_LoopKeepsPlayheadInRange ==
    [][(ev'.op = "tl_advance" /\ tl.loop) =>
          /\ 0 <= tl.loop_start
          /\ tl.loop_start < tl.loop_end
          /\ tl.loop_end <= TlDuration
          /\ tl'.current_time < tl.loop_end]_vars

\* C33: scrub(t) leaves current_time_ms at t clamped to [0, duration_ms] and,
\* when the transport is not Playing, renders the track's value at that time;
\* the tick that follows a scrub with no time in between computes that same
\* position, and the play() that follows a scrub starts from it.
C33_ScrubMovesPlayhead ==
    [][/\ (ev'.op = "tl_scrub" /\ ev'.ok) =>
              /\ tl'.current_time = (IF ev'.gap < 0 THEN 0
                                     ELSE IF ev'.gap > TlDuration THEN TlDuration
                                     ELSE ev'.gap)
              /\ tl.state # "playing" =>
                     ev'.angle = 30 + (120 * tl'.current_time) \div TlDuration
       /\ (ev.op = "tl_scrub" /\ ev.ok /\ ev'.op = "tl_advance") =>
              ev'.gap = tl.current_time
       /\ (ev.op = "tl_scrub" /\ ev.ok /\ ev'.op = "tl_play") =>
              tl'.age = tl.current_time]_vars

\* C34: for a track with keyframes at distinct times the interpolated value is
\* the first keyframe's value up to its time, the last keyframe's from its time
\* on, a keyframe's own value at its time, and strictly inside a segment (a, b),
\* with u = (t - a.time) / (b.time - a.time), a.value + (b.value - a.value) *
\* ease(u) for b's ease: u for Linear, u^2 for EaseIn, and for EaseInOut 2 u^2
\* below one half and 1 - 2 (1 - u)^2 from there on.
C34_InterpolationMatchesReference ==
    ev.op = "tl_value" =>
        LET kf == tl.kf
            t == ev.gap
            v == ev.angle
        IN /\ t <= kf[1].time => v = kf[1].value
           /\ t >= kf[Len(kf)].time => v = kf[Len(kf)].value
           /\ \A i \in 1..Len(kf) : t = kf[i].time => v = kf[i].value
           /\ \A i \in 1..(Len(kf) - 1) :
                 (kf[i].time < t /\ t < kf[i + 1].time) =>
                     LET n == t - kf[i].time
                         d == kf[i + 1].time - kf[i].time
                         e == kf[i + 1].ease
                         eased == IF e = "linear" THEN n * d
                                  ELSE IF e = "ease_in" THEN n * n
                                  ELSE IF 2 * n < d THEN 2 * n * n
                                  ELSE d * d - 2 * (d - n) * (d - n)
                     IN (v - kf[i].value) * d * d = (kf[i + 1].value - kf[i].value) * eased

\* C34 witness: a quarter into a segment from a Linear keyframe with value 0 to
\* an EaseInOut keyframe with value 160 the value is 20 (linear: 40)
C34_Witness ==
    /\ ev.op = "tl_value" /\ ev.gap = 1 /\ ev.angle = 20
    /\ Len(tl.kf) = 2
    /\ tl.kf[1] = [time |-> 0, value |-> 0, ease |-> "linear"]
    /\ tl.kf[2] = [time |-> 4, value |-> 160, ease |-> "ease_in_out"]

\* C35: a render writes a track's value to the servo only if the track is
\* enabled, is not muted and, when some track of the timeline is soloed, is
\* soloed itself.
C35_SoloMuteGating ==
    ev.op = "tl_render" =>
        \A i \in 1..Len(tl.flagged) :
            <<servos["a"].channel, tl.flagged[i].value>> \in ev.writes =>
                /\ tl.flagged[i].enabled
                /\ ~tl.flagged[i].muted
                /\ (\E j \in 1..Len(tl.flagged) : tl.flagged[j].solo) => tl.flagged[i].solo

\* C36: a record tick leaves the keyframes of a track the operator added
\* unchanged; it writes to the "a_live" track only.
C36_RecordingLeavesUserTracks ==
    [][(ev'.op = "tl_record" /\ ~tl.live) => tl'.kf = tl.kf]_vars

\* C37: after record_live_start(["a"]) has returned success, with "a" resolving
\* to a servo and whether or not play() was ever called before, a keyframe with
\* the servo's current angle is eventually recorded, unless the recording is
\* ended first (record_live_stop, which returns the state to Stopped)
C37_RecordingEventuallySamples ==
    (/\ ev.op = "rec_start"
     /\ ev.ok
     /\ tl.state = "recording"
     /\ resolve_servo(servos, "a") # ""
     /\ Len(tl.kf) < MaxRecorded)
        ~> (\/ tl.state # "recording"
            \/ ev.op = "tl_record" /\ ev.ok)

\* C38: preset_play leaves the stored definition as it was: the instance that
\* play(name) with the default rate creates runs at the definition's own rate
\* (0.5 for "nod"), whatever rates earlier plays asked for
C38_PlayLeavesDefinition ==
    [][(ev'.op = "preset_play" /\ ev'.ok) =>
           /\ preset_definitions'[ev'.mode].rate = NodRate
           /\ (ev'.gap = DefaultRate /\ preset'[ev'.mode].running)
                  => InstanceParams(preset_definitions', ev'.mode).rate = NodRate]_vars

\* C39: a failed driver write changes no stored state: when set_angle,
\* go_safe_pose, a preset tick or a timeline tick changes a servo's stored
\* current_angle or target_angle, the driver has accepted a write on that
\* servo's channel in the same operation
C39_FailedWriteStoresNothing ==
    [][ev'.op \in {"set_angle", "go_safe_pose", "preset_tick", "tl_apply"} =>
           \A s \in ServoIds :
               (\/ servos'[s].current_angle # servos[s].current_angle
                \/ servos'[s].target_angle # servos[s].target_angle)
                   => \E w \in ev'.writes : w[1] = servos[s].channel]_vars

\* C40: the watchdog never deadlocks: the worker, awake after its 100 ms, gets
\* through its check (a timeout callback that pets the watchdog included) and
\* back to the head of its loop, and a thread inside watchdog_pet returns
C40_WatchdogNeverDeadlocks ==
    /\ (wd_pc = "sleep" /\ wd_slept) ~> (wd_pc = "loop")
    /\ \A t \in Petters :
           (t \in watchdog_lock.waiting) ~> (t \notin watchdog_lock.waiting)

====
